---- MODULE Spec2Model ----
(***************************************************************************)
(* Model of the drawing-angular pipe editor: the sketch session kept by    *)
(* InteractionService (pointer and key handlers), the outline generator of *)
(* GeometryService and the shape store of DrawingStateService.             *)
(*                                                                         *)
(* Coordinates are integers (pixels).  Every path the sketch session hands *)
(* to the outline generator is axis-aligned, so unit vectors and offsets   *)
(* are exact in integer arithmetic.                                        *)
(***************************************************************************)
EXTENDS Integers, Sequences, FiniteSets, TLC

VARIABLES
    isDrawingPipe,      \* InteractionService.isDrawingPipe
    pipeCenterline,     \* InteractionService.pipeCenterline
    lastDirection,      \* InteractionService.lastDirection: "H", "V", "none"
    previewPipe,        \* <<>> (undefined) or <<flat points of the Konva.Line>>
    endPoint,           \* <<>> or <<endPoint>> of the last processed pointer move
    isDraggingShape,    \* InteractionService.isDraggingShape
    draggedShapeId,     \* InteractionService.draggedShapeId (NullId = null)
    shapeDragStartPos,  \* <<>> (null) or <<position>>
    shapes,             \* DrawingState.shapes
    selectedShapeId,    \* DrawingState.selectedShapeId (NullId = null)
    dragMoves,          \* moveShape calls made so far (bounds the model)
    storeCalls,         \* calls made on the store by its client (bounds the model)
    outlinerPath,       \* path argument of generateOrthogonalPipeVertices
    outlinerThickness,  \* thickness argument of generateOrthogonalPipeVertices
    outlinerResult,     \* <<>> (not called yet) or <<the vertices returned>>
    builderShape,       \* shape argument of generatePathData
    builderResult       \* <<>> (not called yet) or <<the path returned>>

vars == <<isDrawingPipe, pipeCenterline, lastDirection, previewPipe, endPoint,
          isDraggingShape, draggedShapeId, shapeDragStartPos,
          shapes, selectedShapeId, dragMoves>>

sessionVars == <<isDrawingPipe, pipeCenterline, lastDirection, previewPipe, endPoint>>

dragVars == <<isDraggingShape, draggedShapeId, shapeDragStartPos>>

storeVars == <<shapes, selectedShapeId, dragMoves>>

\* a call of generateOrthogonalPipeVertices on its own
outlinerVars == <<outlinerPath, outlinerThickness, outlinerResult>>

\* a call of generatePathData on its own
builderVars == <<builderShape, builderResult>>

\* the variables the editor's event handlers never touch
callVars == <<storeCalls, outlinerVars, builderVars>>

allVars == <<vars, callVars>>

---------------------------------------------------------------------------
(* Program constants *)

PIPE_THICKNESS == 150

TURN_THRESHOLD == 150

\* the live segment must be at least this long for a preview to be drawn
MIN_PREVIEW_DIST == 5

\* selectedShapeId / draggedShapeId value null
NullId == 0

---------------------------------------------------------------------------
(* Bounds of the model *)

\* committed centerline vertices of one session
MaxCenterline == 2

\* pointer coordinates: differences 3 (< 5), 150 (= threshold), 153 (> threshold)
Coords == {0, 3, 153}

\* moveShape calls of one run
MaxDragMoves == 1

Pt(a, b) == [x |-> a, y |-> b]

Positions == {Pt(a, b) : a \in Coords, b \in Coords}

\* stage.getPointerPosition(): Vector2d | null, as <<>> or <<p>>; inside a
\* pointer event the stage has a pointer position
PointerPositions == {<<p>> : p \in Positions}

\* positions the pointer visits while it drags a shape
DragPositions == {<<Pt(3, 0)>>, <<Pt(0, 153)>>}

\* positions where a pointer-down lands
DownPositions == {<<Pt(0, 0)>>}

\* the ids generateId can return
IdPool == {1}

Targets == {"stage", "handle", "shape", "other"}

Keys == {"Escape", "Alt", "a"}

---------------------------------------------------------------------------
(* Arithmetic helpers *)

Abs(n) == IF n < 0 THEN -n ELSE n

Sgn(n) == IF n > 0 THEN 1 ELSE IF n < 0 THEN -1 ELSE 0

\* Math.hypot(dx, dy) < d, for integers dx, dy and d >= 0
HypotLess(dx, dy, d) == dx * dx + dy * dy < d * d

\* v / Math.hypot(v) for an axis-aligned or zero vector ({0,0} when zero)
Normalize(v) == [x |-> Sgn(v.x), y |-> Sgn(v.y)]

AxisAligned(p, q) == p.x = q.x \/ p.y = q.y

PtAdd(p, v, k) == [x |-> p.x + v.x * k, y |-> p.y + v.y * k]

Last(s) == s[Len(s)]

\* Math.min(...values) for a non-empty set of integers
MinOf(values) == CHOOSE m \in values : \A v \in values : m <= v

OtherDirection(d) == IF d = "H" THEN "V" ELSE "H"

---------------------------------------------------------------------------
(* GeometryService.generateOrthogonalPipeVertices *)

\* Math.abs(crossProduct) < 0.1
IsStraight(crossProduct) == 10 * Abs(crossProduct) < 1

\* OutlineStation that offsets a turn by the incoming normal alone
OutlineStation_NoMiter(path, i, halfThick) ==
    LET n == Len(path)
        p_curr == path[i]
        p_prev == IF i > 1 THEN path[i - 1] ELSE p_curr
        p_next == IF i < n THEN path[i + 1] ELSE p_curr
        norm_in == Normalize(Pt(p_curr.x - p_prev.x, p_curr.y - p_prev.y))
        norm_out == Normalize(Pt(p_next.x - p_curr.x, p_next.y - p_curr.y))
        n_in == Pt(-norm_in.y, norm_in.x)
        n_out == Pt(-norm_out.y, norm_out.x)
    IN  IF i = 1
        THEN [right |-> PtAdd(p_curr, n_out, halfThick),
              left |-> PtAdd(p_curr, n_out, -halfThick)]
        ELSE [right |-> PtAdd(p_curr, n_in, halfThick),
              left |-> PtAdd(p_curr, n_in, -halfThick)]

\* OutlineStation with the rails exchanged at a right turn
OutlineStation_MirroredRightTurn(path, i, halfThick) ==
    LET n == Len(path)
        p_curr == path[i]
        p_prev == IF i > 1 THEN path[i - 1] ELSE p_curr
        p_next == IF i < n THEN path[i + 1] ELSE p_curr
        norm_in == Normalize(Pt(p_curr.x - p_prev.x, p_curr.y - p_prev.y))
        norm_out == Normalize(Pt(p_next.x - p_curr.x, p_next.y - p_curr.y))
        n_in == Pt(-norm_in.y, norm_in.x)
        n_out == Pt(-norm_out.y, norm_out.x)
        n_sum == Pt(n_in.x + n_out.x, n_in.y + n_out.y)
        crossProduct == norm_in.x * norm_out.y - norm_in.y * norm_out.x
    IN  IF i = 1
        THEN [right |-> PtAdd(p_curr, n_out, halfThick),
              left |-> PtAdd(p_curr, n_out, -halfThick)]
        ELSE IF i = n \/ IsStraight(crossProduct)
        THEN [right |-> PtAdd(p_curr, n_in, halfThick),
              left |-> PtAdd(p_curr, n_in, -halfThick)]
        ELSE IF crossProduct > 0
        THEN [right |-> PtAdd(p_curr, n_sum, halfThick),
              left |-> PtAdd(p_curr, n_sum, -halfThick)]
        ELSE [left |-> PtAdd(p_curr, n_sum, halfThick),
              right |-> PtAdd(p_curr, n_sum, -halfThick)]

\* one iteration of the loop: the points pushed to rightPoints and leftPoints
\* for station i (1-based) of the path
OutlineStation(path, i, halfThick) ==
    LET n == Len(path)
        p_curr == path[i]
        p_prev == IF i > 1 THEN path[i - 1] ELSE p_curr
        p_next == IF i < n THEN path[i + 1] ELSE p_curr
        norm_in == Normalize(Pt(p_curr.x - p_prev.x, p_curr.y - p_prev.y))
        norm_out == Normalize(Pt(p_next.x - p_curr.x, p_next.y - p_curr.y))
        n_in == Pt(-norm_in.y, norm_in.x)
        n_out == Pt(-norm_out.y, norm_out.x)
        n_sum == Pt(n_in.x + n_out.x, n_in.y + n_out.y)
        crossProduct == norm_in.x * norm_out.y - norm_in.y * norm_out.x
    IN  IF i = 1
        THEN [right |-> PtAdd(p_curr, n_out, halfThick),
              left |-> PtAdd(p_curr, n_out, -halfThick)]
        ELSE IF i = n
        THEN [right |-> PtAdd(p_curr, n_in, halfThick),
              left |-> PtAdd(p_curr, n_in, -halfThick)]
        ELSE IF IsStraight(crossProduct)
        THEN [right |-> PtAdd(p_curr, n_in, halfThick),
              left |-> PtAdd(p_curr, n_in, -halfThick)]
        ELSE IF crossProduct > 0
        THEN [right |-> PtAdd(p_curr, n_sum, halfThick),
              left |-> PtAdd(p_curr, n_sum, -halfThick)]
        ELSE [left |-> PtAdd(p_curr, n_sum, -halfThick),
              right |-> PtAdd(p_curr, n_sum, halfThick)]

\* generateOrthogonalPipeVertices that loses the last point of the left rail
generateOrthogonalPipeVertices_DropsLastPoint(path, thickness) ==
    IF Len(path) < 2
    THEN << >>
    ELSE LET n == Len(path)
             halfThick == thickness \div 2
         IN  [k \in 1..(2 * n - 1) |->
                 IF k <= n
                 THEN OutlineStation(path, k, halfThick).right
                 ELSE OutlineStation(path, 2 * n + 1 - k, halfThick).left]

\* generateOrthogonalPipeVertices that does not reverse the left rail
generateOrthogonalPipeVertices_LeftNotReversed(path, thickness) ==
    IF Len(path) < 2
    THEN << >>
    ELSE LET n == Len(path)
             halfThick == thickness \div 2
         IN  [k \in 1..(2 * n) |->
                 IF k <= n
                 THEN OutlineStation(path, k, halfThick).right
                 ELSE OutlineStation(path, k - n, halfThick).left]

\* generateOrthogonalPipeVertices that offsets by the whole thickness
generateOrthogonalPipeVertices_FullThickness(path, thickness) ==
    IF Len(path) < 2
    THEN << >>
    ELSE LET n == Len(path)
             halfThick == thickness
         IN  [k \in 1..(2 * n) |->
                 IF k <= n
                 THEN OutlineStation(path, k, halfThick).right
                 ELSE OutlineStation(path, 2 * n + 1 - k, halfThick).left]

\* generateOrthogonalPipeVertices that lets a path of one point through
generateOrthogonalPipeVertices_AcceptsOnePoint(path, thickness) ==
    IF Len(path) < 1
    THEN << >>
    ELSE LET n == Len(path)
             halfThick == thickness \div 2
         IN  [k \in 1..(2 * n) |->
                 IF k <= n
                 THEN OutlineStation(path, k, halfThick).right
                 ELSE OutlineStation(path, 2 * n + 1 - k, halfThick).left]

\* rightPoints.concat(leftPoints.reverse())
generateOrthogonalPipeVertices(path, thickness) ==
    IF Len(path) < 2
    THEN << >>
    ELSE LET n == Len(path)
             halfThick == thickness \div 2
         IN  [k \in 1..(2 * n) |->
                 IF k <= n
                 THEN OutlineStation(path, k, halfThick).right
                 ELSE OutlineStation(path, 2 * n + 1 - k, halfThick).left]

\* vertices.flatMap((p) => [p.x, p.y])
FlatPoints(vertices) ==
    [k \in 1..(2 * Len(vertices)) |->
        IF k % 2 = 1 THEN vertices[(k + 1) \div 2].x ELSE vertices[k \div 2].y]

\* the loop of the pointer-up handler that pairs the flat points up again
FinalVertices(finalPath) ==
    [k \in 1..(Len(finalPath) \div 2) |-> Pt(finalPath[2 * k - 1], finalPath[2 * k])]

---------------------------------------------------------------------------
(* GeometryService.generatePathData *)

\* A number of the path builder is <<n>>; NaN is << >>.  The shapes handed to
\* the builder here have axis-aligned edges of even length, so edge lengths,
\* their halves and the three angles that occur (0, 90 and 180 degrees) are
\* exact: tan(angle / 2) is 0, 1 and a number beyond every length.
Num(n) == <<n>>
NaN == << >>
IsNaN(v) == v = NaN

NumPt(p) == [x |-> Num(p.x), y |-> Num(p.y)]
NaNPt == [x |-> NaN, y |-> NaN]

\* array[index] || 0, index counted from 0
ElemOr0(array, index) == IF index + 1 \in 1..Len(array) THEN array[index + 1] ELSE 0

\* Math.hypot of an axis-aligned or zero vector
HypotAligned(v) == Abs(v.x) + Abs(v.y)

\* Math.min of three numbers
Min3(a, b, c) == MinOf({a, b, c})

\* ArcPoint that does not clamp the tangent distance to half the edges
ArcPoint_Unclamped(vertices, cornerRadii, i) ==
    LET numVertices == Len(vertices)
        p_curr == vertices[i + 1]
        p_prev == vertices[((i - 1 + numVertices) % numVertices) + 1]
        p_next == vertices[((i + 1) % numVertices) + 1]
        radius == ElemOr0(cornerRadii, i)
        v_prev == Pt(p_prev.x - p_curr.x, p_prev.y - p_curr.y)
        v_next == Pt(p_next.x - p_curr.x, p_next.y - p_curr.y)
        l_prev == HypotAligned(v_prev)
        l_next == HypotAligned(v_next)
        dot == v_prev.x * v_next.x + v_prev.y * v_next.y
        degenerate == [p_arc_start |-> NumPt(p_curr), p_arc_end |-> NumPt(p_curr),
                       radius |-> Num(0)]
    IN  IF l_prev = 0 \/ l_next = 0 THEN degenerate
        ELSE IF dot > 0
        THEN \* angle 0, tanHalfAngle 0: radius / 0 is Infinity, NaN or -Infinity,
             \* and dist * 0 is 0 for a positive radius, NaN otherwise
             IF radius <= 0
             THEN [p_arc_start |-> NaNPt, p_arc_end |-> NaNPt, radius |-> NaN]
             ELSE degenerate
        ELSE IF dot = 0
        THEN \* angle 90 degrees, tanHalfAngle 1
             LET dist == radius
                 actualRadius == dist
             IN  IF actualRadius <= 0 THEN degenerate
                 ELSE [p_arc_start |-> NumPt(PtAdd(p_curr, Normalize(v_prev), dist)),
                       p_arc_end |-> NumPt(PtAdd(p_curr, Normalize(v_next), dist)),
                       radius |-> Num(actualRadius)]
        ELSE \* angle 180 degrees: dist is radius / tanHalfAngle, below every
             \* unit, and actualRadius is the radius again
             LET dist == 0
                 actualRadius == radius
             IN  IF actualRadius <= 0 THEN degenerate
                 ELSE [p_arc_start |-> NumPt(PtAdd(p_curr, Normalize(v_prev), dist)),
                       p_arc_end |-> NumPt(PtAdd(p_curr, Normalize(v_next), dist)),
                       radius |-> Num(actualRadius)]

\* vertices.map((p_curr, i) => ...): the entry for vertex i, counted from 0
ArcPoint(vertices, cornerRadii, i) ==
    LET numVertices == Len(vertices)
        p_curr == vertices[i + 1]
        p_prev == vertices[((i - 1 + numVertices) % numVertices) + 1]
        p_next == vertices[((i + 1) % numVertices) + 1]
        radius == ElemOr0(cornerRadii, i)
        v_prev == Pt(p_prev.x - p_curr.x, p_prev.y - p_curr.y)
        v_next == Pt(p_next.x - p_curr.x, p_next.y - p_curr.y)
        l_prev == HypotAligned(v_prev)
        l_next == HypotAligned(v_next)
        dot == v_prev.x * v_next.x + v_prev.y * v_next.y
        degenerate == [p_arc_start |-> NumPt(p_curr), p_arc_end |-> NumPt(p_curr),
                       radius |-> Num(0)]
    IN  IF l_prev = 0 \/ l_next = 0 THEN degenerate
        ELSE IF dot > 0
        THEN \* angle 0, tanHalfAngle 0: radius / 0 is Infinity, NaN or -Infinity,
             \* and dist * 0 is 0 for a positive radius, NaN otherwise
             IF radius <= 0
             THEN [p_arc_start |-> NaNPt, p_arc_end |-> NaNPt, radius |-> NaN]
             ELSE degenerate
        ELSE IF dot = 0
        THEN \* angle 90 degrees, tanHalfAngle 1
             LET dist == Min3(radius, l_prev \div 2, l_next \div 2)
                 actualRadius == dist
             IN  IF actualRadius <= 0 THEN degenerate
                 ELSE [p_arc_start |-> NumPt(PtAdd(p_curr, Normalize(v_prev), dist)),
                       p_arc_end |-> NumPt(PtAdd(p_curr, Normalize(v_next), dist)),
                       radius |-> Num(actualRadius)]
        ELSE \* angle 180 degrees: dist is radius / tanHalfAngle, below every
             \* unit, and actualRadius is the radius again
             LET dist == 0
                 actualRadius == radius
             IN  IF actualRadius <= 0 THEN degenerate
                 ELSE [p_arc_start |-> NumPt(PtAdd(p_curr, Normalize(v_prev), dist)),
                       p_arc_end |-> NumPt(PtAdd(p_curr, Normalize(v_next), dist)),
                       radius |-> Num(actualRadius)]

ArcPoints(vertices, cornerRadii) ==
    [k \in 1..Len(vertices) |-> ArcPoint(vertices, cornerRadii, k - 1)]

\* the commands of the path string: ` M x y`, ` L x y`, ` A r r 0 0 sweep x y`;
\* a radius is the fraction num / den
MoveTo(p) == [cmd |-> "M", r |-> [num |-> 0, den |-> 1], sweep |-> 0, x |-> p.x, y |-> p.y]
LineTo(p) == [cmd |-> "L", r |-> [num |-> 0, den |-> 1], sweep |-> 0, x |-> p.x, y |-> p.y]
ArcTo(num, den, sweepFlag, p) ==
    [cmd |-> "A", r |-> [num |-> num, den |-> den], sweep |-> sweepFlag, x |-> p.x, y |-> p.y]

\* Math.hypot(endPoint.x - startPoint.x, endPoint.y - startPoint.y): NaN when a
\* coordinate is NaN
ChordOf(startPt, endPt) ==
    IF IsNaN(startPt.x) \/ IsNaN(startPt.y) \/ IsNaN(endPt.x) \/ IsNaN(endPt.y)
    THEN NaN
    ELSE Num(Abs(endPt.x[1] - startPt.x[1]) + Abs(endPt.y[1] - startPt.y[1]))

\* SegmentCommand that reads the depth at the index of the vertex it arrives at
SegmentCommand_OwnIndex(vertices, segmentDepths, arcPoints, i) ==
    LET numVertices == Len(vertices)
        prevIndex == (i - 1 + numVertices) % numVertices
        startPt == arcPoints[prevIndex + 1].p_arc_end
        endPt == arcPoints[i + 1].p_arc_start
        depth == ElemOr0(segmentDepths, i)
        chord == ChordOf(startPt, endPt)
    IN  IF depth = 0
        THEN <<LineTo(endPt)>>
        ELSE IF ~IsNaN(chord) /\ chord[1] > 0
        THEN <<ArcTo(4 * depth * depth + chord[1] * chord[1], 8 * Abs(depth),
                     IF depth > 0 THEN 0 ELSE 1, endPt)>>
        ELSE << >>

\* SegmentCommand whose arc sweeps the same way for either sign of the depth
SegmentCommand_OneSweep(vertices, segmentDepths, arcPoints, i) ==
    LET numVertices == Len(vertices)
        prevIndex == (i - 1 + numVertices) % numVertices
        startPt == arcPoints[prevIndex + 1].p_arc_end
        endPt == arcPoints[i + 1].p_arc_start
        depth == ElemOr0(segmentDepths, prevIndex)
        chord == ChordOf(startPt, endPt)
    IN  IF depth = 0
        THEN <<LineTo(endPt)>>
        ELSE IF ~IsNaN(chord) /\ chord[1] > 0
        THEN <<ArcTo(4 * depth * depth + chord[1] * chord[1], 8 * Abs(depth), 0, endPt)>>
        ELSE << >>

\* SegmentCommand whose radius leaves the chord out: depth^2 / (2 depth)
SegmentCommand_RadiusWithoutChord(vertices, segmentDepths, arcPoints, i) ==
    LET numVertices == Len(vertices)
        prevIndex == (i - 1 + numVertices) % numVertices
        startPt == arcPoints[prevIndex + 1].p_arc_end
        endPt == arcPoints[i + 1].p_arc_start
        depth == ElemOr0(segmentDepths, prevIndex)
        chord == ChordOf(startPt, endPt)
    IN  IF depth = 0
        THEN <<LineTo(endPt)>>
        ELSE IF ~IsNaN(chord) /\ chord[1] > 0
        THEN <<ArcTo(4 * depth * depth, 8 * Abs(depth),
                     IF depth > 0 THEN 0 ELSE 1, endPt)>>
        ELSE << >>

\* the command the loop appends for the edge that arrives at vertex i (from
\* 0): a line, an arc of the bulge, or nothing
SegmentCommand(vertices, segmentDepths, arcPoints, i) ==
    LET numVertices == Len(vertices)
        prevIndex == (i - 1 + numVertices) % numVertices
        prevArc == arcPoints[prevIndex + 1]
        currentArc == arcPoints[i + 1]
        startPt == prevArc.p_arc_end
        endPt == currentArc.p_arc_start
        depth == ElemOr0(segmentDepths, prevIndex)
        chord == ChordOf(startPt, endPt)
    IN  IF depth = 0
        THEN <<LineTo(endPt)>>
        ELSE IF ~IsNaN(chord) /\ chord[1] > 0
        THEN \* radius = (depth^2 + (chord/2)^2) / (2 depth), as a fraction
             <<ArcTo(4 * depth * depth + chord[1] * chord[1], 8 * Abs(depth),
                     IF depth > 0 THEN 0 ELSE 1, endPt)>>
        ELSE << >>

\* CornerCommand whose arc sweeps the same way whatever the cross product
CornerCommand_OneSweep(vertices, arcPoints, i) ==
    LET currentArc == arcPoints[i + 1]
    IN  IF ~IsNaN(currentArc.radius) /\ currentArc.radius[1] > 0
        THEN <<ArcTo(currentArc.radius[1], 1, 1, currentArc.p_arc_end)>>
        ELSE << >>

\* the command the loop appends for the corner at vertex i (from 0): an arc
\* when the vertex kept a radius, or nothing
CornerCommand(vertices, arcPoints, i) ==
    LET numVertices == Len(vertices)
        currentArc == arcPoints[i + 1]
        p_curr == vertices[i + 1]
        p_prev == vertices[((i - 1 + numVertices) % numVertices) + 1]
        p_next == vertices[((i + 1) % numVertices) + 1]
        v_prev == Pt(p_prev.x - p_curr.x, p_prev.y - p_curr.y)
        v_next == Pt(p_next.x - p_curr.x, p_next.y - p_curr.y)
        crossProduct == v_prev.x * v_next.y - v_prev.y * v_next.x
    IN  IF ~IsNaN(currentArc.radius) /\ currentArc.radius[1] > 0
        THEN <<ArcTo(currentArc.radius[1], 1,
                     IF crossProduct > 0 THEN 0 ELSE 1,
                     currentArc.p_arc_end)>>
        ELSE << >>

\* the commands one iteration of the loop appends, for vertex i (from 0)
EdgeCommands(vertices, segmentDepths, arcPoints, i) ==
    SegmentCommand(vertices, segmentDepths, arcPoints, i) \o
    CornerCommand(vertices, arcPoints, i)

RECURSIVE PathLoop(_, _, _, _)
\* the commands appended by iterations i .. numVertices - 1
PathLoop(vertices, segmentDepths, arcPoints, i) ==
    IF i >= Len(vertices) THEN << >>
    ELSE EdgeCommands(vertices, segmentDepths, arcPoints, i) \o
         PathLoop(vertices, segmentDepths, arcPoints, i + 1)

\* generatePathData that builds a path for a single vertex
generatePathData_AcceptsOneVertex(shape) ==
    IF Len(shape.vertices) < 1 THEN << >>
    ELSE LET arcPoints == ArcPoints(shape.vertices, shape.cornerRadii)
         IN  <<MoveTo(arcPoints[Len(shape.vertices)].p_arc_end)>> \o
             PathLoop(shape.vertices, shape.segmentDepths, arcPoints, 0)

\* generatePathData: the commands of the path ('' is the empty sequence)
generatePathData(shape) ==
    IF Len(shape.vertices) < 2 THEN << >>
    ELSE LET arcPoints == ArcPoints(shape.vertices, shape.cornerRadii)
         IN  <<MoveTo(arcPoints[Len(shape.vertices)].p_arc_end)>> \o
             PathLoop(shape.vertices, shape.segmentDepths, arcPoints, 0)

---------------------------------------------------------------------------
(* DrawingStateService *)

\* Zeros one entry short
Zeros_OneShort(n) == [k \in 1..(n - 1) |-> 0]

\* Array(n).fill(0)
Zeros(n) == [k \in 1..n |-> 0]

ShapeIds == {shapes[k].id : k \in 1..Len(shapes)}

\* addNewShape: the shape list after appending a shape with these vertices
addNewShape(vertices, id) ==
    Append(shapes, [id |-> id,
                    vertices |-> vertices,
                    cornerRadii |-> Zeros(Len(vertices)),
                    segmentDepths |-> Zeros(Len(vertices))])

\* moveShape: the shape list after translating every vertex of shape shapeId
moveShape(shapeId, dx, dy) ==
    [k \in 1..Len(shapes) |->
        IF shapes[k].id = shapeId
        THEN [shapes[k] EXCEPT !.vertices =
                 [j \in 1..Len(shapes[k].vertices) |->
                     Pt(shapes[k].vertices[j].x + dx, shapes[k].vertices[j].y + dy)]]
        ELSE shapes[k]]

\* getSelectedShape: the position in shapes of the first shape whose id is
\* selectedShapeId, 0 when there is none (null)
getSelectedShape ==
    LET found == {k \in 1..Len(shapes) : shapes[k].id = selectedShapeId}
    IN  IF found = {} THEN 0 ELSE CHOOSE k \in found : \A j \in found : k <= j

\* copy[index] = value on a copy of an array, index counted from 0 as in the
\* source: an index inside the array replaces the element, the index one past
\* the end lengthens the array by one, a negative index sets a property and
\* leaves the elements alone
ArraySet(array, index, value) ==
    IF index < 0 THEN array
    ELSE IF index < Len(array) THEN [array EXCEPT ![index + 1] = value]
    ELSE Append(array, value)

\* ReplaceSelected that writes the changed shape over every shape
ReplaceSelected_Everywhere(changed) == [k \in 1..Len(shapes) |-> changed]

\* state.shapes.map(shape => shape.id === selectedShape.id ? changed : shape)
ReplaceSelected(changed) ==
    [k \in 1..Len(shapes) |->
        IF shapes[k].id = shapes[getSelectedShape].id THEN changed ELSE shapes[k]]

\* updateVertexPosition: the shape list it leaves
updateVertexPosition(index, position) ==
    IF getSelectedShape = 0 THEN shapes
    ELSE LET selectedShape == shapes[getSelectedShape]
         IN  ReplaceSelected([selectedShape EXCEPT
                 !.vertices = ArraySet(selectedShape.vertices, index, position)])

\* setCornerRadius: the shape list it leaves
setCornerRadius(index, radius) ==
    IF getSelectedShape = 0 THEN shapes
    ELSE LET selectedShape == shapes[getSelectedShape]
         IN  ReplaceSelected([selectedShape EXCEPT
                 !.cornerRadii = ArraySet(selectedShape.cornerRadii, index, radius)])

\* setSegmentDepth: the shape list it leaves
setSegmentDepth(index, depth) ==
    IF getSelectedShape = 0 THEN shapes
    ELSE LET selectedShape == shapes[getSelectedShape]
         IN  ReplaceSelected([selectedShape EXCEPT
                 !.segmentDepths = ArraySet(selectedShape.segmentDepths, index, depth)])

\* moveSegment: the shape list it leaves; reading .x of a vertex that is not
\* there throws before the state is set
moveSegment(index, dx, dy) ==
    IF getSelectedShape = 0 THEN shapes
    ELSE LET selectedShape == shapes[getSelectedShape]
             numVertices == Len(selectedShape.vertices)
         IN  IF index < 0 \/ index >= numVertices THEN shapes
             ELSE LET p1_index == index
                      p2_index == (index + 1) % numVertices
                      v == selectedShape.vertices
                      moved1 == ArraySet(v, p1_index,
                                    Pt(v[p1_index + 1].x + dx, v[p1_index + 1].y + dy))
                      moved2 == ArraySet(moved1, p2_index,
                                    Pt(moved1[p2_index + 1].x + dx,
                                       moved1[p2_index + 1].y + dy))
                  IN  ReplaceSelected([selectedShape EXCEPT !.vertices = moved2])

\* scaleAll: the shape list it leaves (allPoints is not empty)
scaleAll(scaleRatio, isHorizontal, allPoints) ==
    IF getSelectedShape = 0 THEN shapes
    ELSE LET selectedShape == shapes[getSelectedShape]
             v == selectedShape.vertices
             minX == MinOf({allPoints[k].x : k \in 1..Len(allPoints)})
             minY == MinOf({allPoints[k].y : k \in 1..Len(allPoints)})
             newVertices ==
                 IF isHorizontal
                 THEN [k \in 1..Len(v) |->
                          Pt(minX + (v[k].x - minX) * scaleRatio, v[k].y)]
                 ELSE [k \in 1..Len(v) |->
                          Pt(v[k].x, minY + (v[k].y - minY) * scaleRatio)]
         IN  ReplaceSelected([selectedShape EXCEPT !.vertices = newVertices])

\* deleteShape: the shape list it leaves
deleteShape(shapeId) == SelectSeq(shapes, LAMBDA shape : shape.id # shapeId)

---------------------------------------------------------------------------
(* InteractionService: the pipe sketch session *)

\* LockDirection with a tie going to the horizontal axis (>= for >)
LockDirection_TieHorizontal(direction, dx, dy) ==
    IF direction = "none"
    THEN (IF Abs(dx) >= Abs(dy) THEN "H" ELSE "V")
    ELSE direction

\* currentDirection, and lastDirection once the 'none' case is resolved
LockDirection(direction, dx, dy) ==
    IF direction = "none"
    THEN (IF Abs(dx) > Abs(dy) THEN "H" ELSE "V")
    ELSE direction

\* TurnRegistered with the threshold itself counting as a turn (>= for >)
TurnRegistered_AtThreshold(locked, dx, dy) ==
    IF locked = "V" THEN Abs(dx) >= TURN_THRESHOLD ELSE Abs(dy) >= TURN_THRESHOLD

\* the turn test of the locked branch
TurnRegistered(locked, dx, dy) ==
    IF locked = "V" THEN Abs(dx) > TURN_THRESHOLD ELSE Abs(dy) > TURN_THRESHOLD

\* ConstrainedPoint that follows the pointer on both axes
ConstrainedPoint_Unpinned(locked, anchorPoint, mousePos) == mousePos

\* the point constrained to the locked axis (endPoint without a turn, turnPoint with one)
ConstrainedPoint(locked, anchorPoint, mousePos) ==
    IF locked = "V"
    THEN Pt(anchorPoint.x, mousePos.y)
    ELSE Pt(mousePos.x, anchorPoint.y)

\* pipeCenterline after the guarded push of the turn point
PushTurnPoint(centerline, anchorPoint, turnPoint) ==
    IF turnPoint.x # anchorPoint.x \/ turnPoint.y # anchorPoint.y
    THEN Append(centerline, turnPoint)
    ELSE centerline

\* the body of the pointer-move handler from anchorPoint on: the session's
\* centerline, lock and live endpoint after a move to mousePos
MoveSession(centerline, direction, mousePos) ==
    LET anchorPoint == Last(centerline)
        dx == mousePos.x - anchorPoint.x
        dy == mousePos.y - anchorPoint.y
        locked == LockDirection(direction, dx, dy)
        constrained == ConstrainedPoint(locked, anchorPoint, mousePos)
    IN  IF TurnRegistered(locked, dx, dy)
        THEN [pipeCenterline |-> PushTurnPoint(centerline, anchorPoint, constrained),
              lastDirection |-> OtherDirection(locked),
              endPoint |-> mousePos]
        ELSE [pipeCenterline |-> centerline,
              lastDirection |-> locked,
              endPoint |-> constrained]

\* PreviewPoints that outlines the committed centerline without the live endpoint
PreviewPoints_CenterlineOnly(centerline, end) ==
    IF HypotLess(end.x - Last(centerline).x, end.y - Last(centerline).y,
                 MIN_PREVIEW_DIST)
    THEN << >>
    ELSE FlatPoints(generateOrthogonalPipeVertices(centerline, PIPE_THICKNESS))

\* PreviewPoints without the suppression of a live segment under 5 units
PreviewPoints_NoSuppression(centerline, end) ==
    FlatPoints(generateOrthogonalPipeVertices(Append(centerline, end), PIPE_THICKNESS))

\* the points given to previewPipe at the end of a pointer move
PreviewPoints(centerline, end) ==
    LET lastPoint == Last(centerline)
    IN  IF HypotLess(end.x - lastPoint.x, end.y - lastPoint.y, MIN_PREVIEW_DIST)
        THEN << >>
        ELSE FlatPoints(generateOrthogonalPipeVertices(Append(centerline, end),
                                                       PIPE_THICKNESS))

\* this.previewPipe?.points() || []
FinalPath == IF previewPipe = << >> THEN << >> ELSE previewPipe[1]

\* cancelDrawing that forgets to empty the centerline
cancelDrawing_KeepCenterline ==
    /\ isDrawingPipe' = FALSE
    /\ pipeCenterline' = pipeCenterline
    /\ lastDirection' = "none"
    /\ previewPipe' = << >>
    /\ endPoint' = << >>

\* cancelDrawing
cancelDrawing ==
    /\ isDrawingPipe' = FALSE
    /\ pipeCenterline' = << >>
    /\ lastDirection' = "none"
    /\ previewPipe' = << >>
    /\ endPoint' = << >>

\* StartSession that does not record the pointer position as the first vertex
StartSession_NoAnchor(pos) ==
    [pipeCenterline |-> << >>,
     lastDirection |-> "none",
     previewPipe |-> << << >> >>]

\* the session fields set by a pointer-down that starts a sketch at pos
StartSession(pos) ==
    [pipeCenterline |-> <<pos>>,
     lastDirection |-> "none",
     previewPipe |-> << << >> >>]

\* MouseDown that starts a sketch on the stage whether Alt is held or not
MouseDown_AltDraws(target, shapeId, altKey, pos) ==
    IF target = "handle"
    THEN UNCHANGED vars
    ELSE IF target = "shape" /\ shapeId # NullId
    THEN /\ selectedShapeId' = shapeId
         /\ IF altKey
            THEN /\ isDraggingShape' = TRUE
                 /\ draggedShapeId' = shapeId
                 /\ shapeDragStartPos' = pos
            ELSE UNCHANGED dragVars
         /\ UNCHANGED <<sessionVars, shapes, dragMoves>>
    ELSE IF target # "stage"
    THEN UNCHANGED vars
    ELSE /\ selectedShapeId' = NullId
         /\ isDrawingPipe' = TRUE
         /\ IF pos = << >>
            THEN UNCHANGED <<pipeCenterline, lastDirection, previewPipe, endPoint>>
            ELSE LET s == StartSession(pos[1])
                 IN  /\ pipeCenterline' = s.pipeCenterline
                     /\ lastDirection' = s.lastDirection
                     /\ previewPipe' = s.previewPipe
                     /\ endPoint' = << >>
         /\ UNCHANGED <<dragVars, shapes, dragMoves>>

\* stage.on('mousedown touchstart')
MouseDown(target, shapeId, altKey, pos) ==
    IF target = "handle"
    THEN UNCHANGED vars
    ELSE IF target = "shape" /\ shapeId # NullId
    THEN /\ selectedShapeId' = shapeId
         /\ IF altKey
            THEN /\ isDraggingShape' = TRUE
                 /\ draggedShapeId' = shapeId
                 /\ shapeDragStartPos' = pos
            ELSE UNCHANGED dragVars
         /\ UNCHANGED <<sessionVars, shapes, dragMoves>>
    ELSE IF target # "stage"
    THEN UNCHANGED vars
    ELSE IF altKey
    THEN UNCHANGED vars
    ELSE /\ selectedShapeId' = NullId
         /\ isDrawingPipe' = TRUE
         /\ IF pos = << >>
            THEN UNCHANGED <<pipeCenterline, lastDirection, previewPipe, endPoint>>
            ELSE LET s == StartSession(pos[1])
                 IN  /\ pipeCenterline' = s.pipeCenterline
                     /\ lastDirection' = s.lastDirection
                     /\ previewPipe' = s.previewPipe
                     /\ endPoint' = << >>
         /\ UNCHANGED <<dragVars, shapes, dragMoves>>

\* the shape-dragging branch of the pointer-move handler is taken
DragMoveTaken == isDraggingShape /\ draggedShapeId # NullId /\ shapeDragStartPos # << >>

\* MouseMove whose drag branch keeps measuring from where the drag started
MouseMove_KeepsDragStart(altKey, pos) ==
    IF DragMoveTaken
    THEN IF pos = << >>
         THEN UNCHANGED vars
         ELSE /\ shapes' = moveShape(draggedShapeId,
                                     pos[1].x - shapeDragStartPos[1].x,
                                     pos[1].y - shapeDragStartPos[1].y)
              /\ dragMoves' = dragMoves + 1
              /\ UNCHANGED <<sessionVars, dragVars, selectedShapeId>>
    ELSE IF ~isDrawingPipe
    THEN UNCHANGED vars
    ELSE IF altKey
    THEN cancelDrawing /\ UNCHANGED <<dragVars, storeVars>>
    ELSE IF pos = << >>
    THEN UNCHANGED vars
    ELSE IF pipeCenterline = << >>
    THEN UNCHANGED vars
    ELSE LET m == MoveSession(pipeCenterline, lastDirection, pos[1])
         IN  /\ pipeCenterline' = m.pipeCenterline
             /\ lastDirection' = m.lastDirection
             /\ endPoint' = <<m.endPoint>>
             /\ previewPipe' = IF previewPipe = << >>
                               THEN << >>
                               ELSE <<PreviewPoints(m.pipeCenterline, m.endPoint)>>
             /\ UNCHANGED <<isDrawingPipe, dragVars, storeVars>>

\* stage.on('mousemove touchmove')
MouseMove(altKey, pos) ==
    IF DragMoveTaken
    THEN IF pos = << >>
         THEN UNCHANGED vars
         ELSE /\ shapes' = moveShape(draggedShapeId,
                                     pos[1].x - shapeDragStartPos[1].x,
                                     pos[1].y - shapeDragStartPos[1].y)
              /\ shapeDragStartPos' = pos
              /\ dragMoves' = dragMoves + 1
              /\ UNCHANGED <<sessionVars, isDraggingShape, draggedShapeId,
                             selectedShapeId>>
    ELSE IF ~isDrawingPipe
    THEN UNCHANGED vars
    ELSE IF altKey
    THEN cancelDrawing /\ UNCHANGED <<dragVars, storeVars>>
    ELSE IF pos = << >>
    THEN UNCHANGED vars
    ELSE IF pipeCenterline = << >>
    THEN UNCHANGED vars
    ELSE LET m == MoveSession(pipeCenterline, lastDirection, pos[1])
         IN  /\ pipeCenterline' = m.pipeCenterline
             /\ lastDirection' = m.lastDirection
             /\ endPoint' = <<m.endPoint>>
             /\ previewPipe' = IF previewPipe = << >>
                               THEN << >>
                               ELSE <<PreviewPoints(m.pipeCenterline, m.endPoint)>>
             /\ UNCHANGED <<isDrawingPipe, dragVars, storeVars>>

\* stage.on('mouseup touchend'); id is the value generateId returns if a shape
\* is created
MouseUp(id) ==
    IF isDraggingShape
    THEN /\ isDraggingShape' = FALSE
         /\ draggedShapeId' = NullId
         /\ shapeDragStartPos' = << >>
         /\ UNCHANGED <<sessionVars, storeVars>>
    ELSE IF ~isDrawingPipe
    THEN UNCHANGED vars
    ELSE LET finalVertices == FinalVertices(FinalPath)
         IN  /\ IF Len(finalVertices) > 3
                THEN /\ shapes' = addNewShape(finalVertices, id)
                     /\ selectedShapeId' = id
                     /\ UNCHANGED dragMoves
                ELSE UNCHANGED storeVars
             /\ cancelDrawing
             /\ UNCHANGED dragVars

\* the two window 'keydown' listeners, in the order they were added
KeyDown(key, altKey) ==
    IF isDrawingPipe /\ ((altKey /\ ~isDraggingShape) \/ key = "Escape")
    THEN cancelDrawing /\ UNCHANGED <<dragVars, storeVars>>
    ELSE UNCHANGED vars

---------------------------------------------------------------------------
(* The bounds, as guards on the events *)

\* the move keeps the centerline and the number of shape moves inside the bounds
MoveWithinBounds(altKey, pos) ==
    IF DragMoveTaken
    THEN pos # << >> => (dragMoves < MaxDragMoves /\ pos \in DragPositions)
    ELSE (isDrawingPipe /\ ~altKey /\ pos # << >> /\ pipeCenterline # << >>) =>
            Len(MoveSession(pipeCenterline, lastDirection, pos[1]).pipeCenterline)
                <= MaxCenterline

\* the pointer-up creates a shape
UpCreatesShape ==
    ~isDraggingShape /\ isDrawingPipe /\ Len(FinalVertices(FinalPath)) > 3

\* generateId: an id no shape of the store has (when the pointer-up creates none,
\* the id is not used)
FreshIds == IF UpCreatesShape THEN IdPool \ ShapeIds ELSE {NullId}

---------------------------------------------------------------------------
(* The editor as a state machine *)

\* no call has been made on the store, the outline generator or the path builder
NoCalls ==
    /\ storeCalls = 0
    /\ outlinerPath = << >>
    /\ outlinerThickness = 0
    /\ outlinerResult = << >>
    /\ builderShape = << >>
    /\ builderResult = << >>

\* the editor after construction
EditorInit ==
    /\ isDrawingPipe = FALSE
    /\ pipeCenterline = << >>
    /\ lastDirection = "none"
    /\ previewPipe = << >>
    /\ endPoint = << >>
    /\ isDraggingShape = FALSE
    /\ draggedShapeId = NullId
    /\ shapeDragStartPos = << >>
    /\ shapes = << >>
    /\ selectedShapeId = NullId
    /\ dragMoves = 0

Init == EditorInit /\ NoCalls

PointerDown ==
    /\ \E target \in Targets, altKey \in BOOLEAN, pos \in DownPositions :
          \E shapeId \in (IF target = "shape" THEN ShapeIds ELSE {NullId}) :
              MouseDown(target, shapeId, altKey, pos)
    /\ UNCHANGED callVars

PointerMove ==
    /\ \E altKey \in BOOLEAN, pos \in PointerPositions :
          MoveWithinBounds(altKey, pos) /\ MouseMove(altKey, pos)
    /\ UNCHANGED callVars

PointerUp == (\E id \in FreshIds : MouseUp(id)) /\ UNCHANGED callVars

KeyPress ==
    /\ \E key \in Keys, altKey \in BOOLEAN :
          (key = "Alt" => altKey) /\ KeyDown(key, altKey)
    /\ UNCHANGED callVars

Next == PointerUp \/ PointerDown \/ PointerMove \/ KeyPress

Spec == Init /\ [][Next]_allVars

---------------------------------------------------------------------------
(* The store under the calls of a client *)

\* calls made on the store in one run
MaxStoreCalls == 3

\* the ids generateId can return to a client of the store
StoreIdPool == {1, 2}

\* vertex lists a client hands to addNewShape: the outline of a committed
\* sketch and a triangle
ClientVertices ==
    {generateOrthogonalPipeVertices(<<Pt(0, 0), Pt(153, 0)>>, PIPE_THICKNESS),
     <<Pt(0, 0), Pt(4, 0), Pt(4, 4)>>}

\* index arguments for an array: before the first element, the first element,
\* one past the last
ClientIndexes(array) == {-1, 0, Len(array)}

ClientPosition == Pt(3, 3)
ClientRadius == 5
ClientDepth == 7
ClientDelta == Pt(3, 0)
ClientScaleRatio == 2

\* the selected shape, or a shape without elements when none is selected
SelectedOrEmpty ==
    IF getSelectedShape = 0
    THEN [id |-> NullId, vertices |-> << >>, cornerRadii |-> << >>,
          segmentDepths |-> << >>]
    ELSE shapes[getSelectedShape]

\* what every call on the store leaves alone, and the count of the call
StoreCall ==
    /\ storeCalls < MaxStoreCalls
    /\ storeCalls' = storeCalls + 1
    /\ UNCHANGED <<sessionVars, dragVars, dragMoves, outlinerVars, builderVars>>

CallAddNewShape ==
    \E vertices \in ClientVertices, id \in StoreIdPool \ ShapeIds :
        /\ shapes' = addNewShape(vertices, id)
        /\ selectedShapeId' = id
        /\ StoreCall

CallSelectShape ==
    \E shapeId \in ShapeIds \cup {NullId} :
        /\ selectedShapeId' = shapeId
        /\ UNCHANGED shapes
        /\ StoreCall

CallUpdateVertexPosition ==
    \E index \in ClientIndexes(SelectedOrEmpty.vertices) :
        /\ shapes' = updateVertexPosition(index, ClientPosition)
        /\ UNCHANGED selectedShapeId
        /\ StoreCall

CallSetCornerRadius ==
    \E index \in ClientIndexes(SelectedOrEmpty.cornerRadii) :
        /\ shapes' = setCornerRadius(index, ClientRadius)
        /\ UNCHANGED selectedShapeId
        /\ StoreCall

CallSetSegmentDepth ==
    \E index \in ClientIndexes(SelectedOrEmpty.segmentDepths) :
        /\ shapes' = setSegmentDepth(index, ClientDepth)
        /\ UNCHANGED selectedShapeId
        /\ StoreCall

CallMoveSegment ==
    \E index \in ClientIndexes(SelectedOrEmpty.vertices) :
        /\ shapes' = moveSegment(index, ClientDelta.x, ClientDelta.y)
        /\ UNCHANGED selectedShapeId
        /\ StoreCall

\* the caller passes the vertices of the shape it holds
CallScaleAll ==
    \E isHorizontal \in BOOLEAN,
       allPoints \in (IF getSelectedShape = 0 THEN ClientVertices
                      ELSE {SelectedOrEmpty.vertices}) :
        /\ allPoints # << >>
        /\ shapes' = scaleAll(ClientScaleRatio, isHorizontal, allPoints)
        /\ UNCHANGED selectedShapeId
        /\ StoreCall

\* deleteShape that leaves selectedShapeId alone
CallDeleteShape_KeepsSelection ==
    \E shapeId \in ShapeIds :
        /\ shapes' = deleteShape(shapeId)
        /\ UNCHANGED selectedShapeId
        /\ StoreCall

CallDeleteShape ==
    \E shapeId \in ShapeIds :
        /\ shapes' = deleteShape(shapeId)
        /\ selectedShapeId' = IF selectedShapeId = shapeId THEN NullId
                               ELSE selectedShapeId
        /\ StoreCall

CallMoveShape ==
    \E shapeId \in ShapeIds :
        /\ shapes' = moveShape(shapeId, ClientDelta.x, ClientDelta.y)
        /\ UNCHANGED selectedShapeId
        /\ StoreCall

StoreNext ==
    \/ CallAddNewShape
    \/ CallSelectShape
    \/ CallUpdateVertexPosition
    \/ CallSetCornerRadius
    \/ CallSetSegmentDepth
    \/ CallMoveSegment
    \/ CallScaleAll
    \/ CallDeleteShape
    \/ CallMoveShape

StoreSpec == Init /\ [][StoreNext]_allVars

---------------------------------------------------------------------------
(* generateOrthogonalPipeVertices called on its own *)

\* points of the paths handed to the outline generator
MaxPathLen == 3

OutlinerPoints == {Pt(a, b) : a \in {0, 100, 200}, b \in {0, 100}}

\* the paths of n points whose segments are axis-aligned or of length zero
RECURSIVE AlignedPaths(_)
AlignedPaths(n) ==
    IF n = 0 THEN {<< >>}
    ELSE IF n = 1 THEN {<<p>> : p \in OutlinerPoints}
    ELSE {Append(q, p) : q \in AlignedPaths(n - 1), p \in OutlinerPoints} \cap
         {q \in [1..n -> OutlinerPoints] : AxisAligned(q[n - 1], q[n])}

OutlinerPaths == UNION {AlignedPaths(n) : n \in 0..MaxPathLen}

\* even, so that thickness / 2 is an integer
OutlinerThicknesses == {2, PIPE_THICKNESS}

OutlinerInit ==
    /\ EditorInit
    /\ storeCalls = 0
    /\ builderShape = << >>
    /\ builderResult = << >>
    /\ outlinerPath \in OutlinerPaths
    /\ outlinerThickness \in OutlinerThicknesses
    /\ outlinerResult = << >>

CallOutliner ==
    /\ outlinerResult = << >>
    /\ outlinerResult' =
           <<generateOrthogonalPipeVertices(outlinerPath, outlinerThickness)>>
    /\ UNCHANGED <<vars, storeCalls, builderVars, outlinerPath, outlinerThickness>>

OutlinerNext == CallOutliner

OutlinerSpec == OutlinerInit /\ [][OutlinerNext]_allVars

---------------------------------------------------------------------------
(* generatePathData called on its own *)

\* vertex lists with axis-aligned edges of even length: a rectangle, a
\* rectangle with a vertex in the middle of an edge, an outline that runs back
\* over its own edge, one with a repeated vertex, and lists of 2, 1 and 0
\* vertices
BuilderVertices ==
    {<<Pt(0, 0), Pt(20, 0), Pt(20, 10), Pt(0, 10)>>,
     <<Pt(0, 0), Pt(10, 0), Pt(20, 0), Pt(20, 10), Pt(0, 10)>>,
     <<Pt(0, 0), Pt(20, 0), Pt(10, 0), Pt(10, 10), Pt(0, 10)>>,
     <<Pt(0, 0), Pt(20, 0), Pt(20, 0), Pt(20, 10), Pt(0, 10)>>,
     <<Pt(0, 0), Pt(20, 0)>>,
     <<Pt(0, 0)>>,
     << >>}

\* corner radii: none, one that fits every edge, one larger than every edge
BuilderRadii == {0, 4, 30}

\* segment depths: none and a bulge
BuilderDepths == {0, 3}

\* the rectangle with a bulge on every edge, outwards or inwards
BuilderBulges == {3, -3}

BuilderBulgedShapes ==
    [id : {1}, vertices : {<<Pt(0, 0), Pt(20, 0), Pt(20, 10), Pt(0, 10)>>},
     cornerRadii : [1..4 -> {0, 30}],
     segmentDepths : [1..4 -> BuilderBulges]]

BuilderShapes ==
    UNION {[id : {1}, vertices : {v},
            cornerRadii : [1..Len(v) -> BuilderRadii],
            segmentDepths : [1..Len(v) -> BuilderDepths]] : v \in BuilderVertices}
    \cup BuilderBulgedShapes

BuilderInit ==
    /\ EditorInit
    /\ storeCalls = 0
    /\ outlinerPath = << >>
    /\ outlinerThickness = 0
    /\ outlinerResult = << >>
    /\ builderShape \in {<<shape>> : shape \in BuilderShapes}
    /\ builderResult = << >>

\* calls made on one shape
MaxBuilderCalls == 2

\* what a call of generatePathData(shape) computes: the path it returns, the
\* arcPoints array it builds on the way, and per vertex the commands the loop
\* appended for the arriving edge and for the corner
PathBuilderRun(shape) ==
    LET numVertices == Len(shape.vertices)
        arcPoints == IF numVertices < 2 THEN << >>
                     ELSE ArcPoints(shape.vertices, shape.cornerRadii)
    IN  [arcPoints |-> arcPoints,
         segments |-> [k \in 1..Len(arcPoints) |->
                          SegmentCommand(shape.vertices, shape.segmentDepths,
                                         arcPoints, k - 1)],
         corners |-> [k \in 1..Len(arcPoints) |->
                         CornerCommand(shape.vertices, arcPoints, k - 1)],
         path |-> generatePathData(shape)]

\* a call that clears the depths of the shape it was given
CallPathBuilder_ClearsDepths ==
    /\ Len(builderResult) < MaxBuilderCalls
    /\ builderResult' = Append(builderResult, PathBuilderRun(builderShape[1]))
    /\ builderShape' = <<[builderShape[1] EXCEPT
                             !.segmentDepths = Zeros(Len(builderShape[1].segmentDepths))]>>
    /\ UNCHANGED <<vars, storeCalls, outlinerVars>>

\* a call on the shape; the shape is only read
CallPathBuilder ==
    /\ Len(builderResult) < MaxBuilderCalls
    /\ builderResult' = Append(builderResult, PathBuilderRun(builderShape[1]))
    /\ UNCHANGED <<vars, storeCalls, outlinerVars, builderShape>>

BuilderNext == CallPathBuilder

BuilderSpec == BuilderInit /\ [][BuilderNext]_allVars

---------------------------------------------------------------------------
(* The depth prompt of a midpoint handle *)

\* Math.min / Math.max of two numbers
MathMin(a, b) == IF a < b THEN a ELSE b
MathMax(a, b) == IF a > b THEN a ELSE b

\* what prompt() returns: null when cancelled, otherwise the text entered
PromptNumbers == {-400, -80, 3, 80, 400}

PromptEntries ==
    {[text |-> "cancelled", value |-> 0], [text |-> "empty", value |-> 0],
     [text |-> "word", value |-> 0]}
    \cup {[text |-> "number", value |-> n] : n \in PromptNumbers}

\* if (newDepthStr): null and '' are falsy
Truthy(entry) == entry.text \notin {"cancelled", "empty"}

\* parseFloat(newDepthStr)
parseFloat(entry) == IF entry.text = "number" THEN Num(entry.value) ELSE NaN

\* the click / contextmenu listener of the midpoint handle of segment
\* segmentIndex: the shape list it leaves
eventListener(segmentIndex, newDepthStr) ==
    IF getSelectedShape = 0 THEN shapes
    ELSE LET selectedShape == shapes[getSelectedShape]
             p1 == selectedShape.vertices[segmentIndex + 1]
             p2 == selectedShape.vertices[((segmentIndex + 1) % Len(selectedShape.vertices)) + 1]
             chord == HypotAligned(Pt(p2.x - p1.x, p2.y - p1.y))
         IN  IF ~Truthy(newDepthStr) THEN shapes
             ELSE IF IsNaN(parseFloat(newDepthStr)) THEN shapes
             ELSE setSegmentDepth(segmentIndex,
                                  MathMax(-chord, MathMin(chord, parseFloat(newDepthStr)[1])))

\* shapes with axis-aligned edges: the outline of a sketched pipe and a small
\* rectangle
MidpointVertices ==
    {generateOrthogonalPipeVertices(<<Pt(0, 0), Pt(153, 0)>>, PIPE_THICKNESS),
     <<Pt(0, 0), Pt(20, 0), Pt(20, 10), Pt(0, 10)>>}

\* the editor with one shape, selected, as a committed sketch leaves it
MidpointInit ==
    /\ isDrawingPipe = FALSE
    /\ pipeCenterline = << >>
    /\ lastDirection = "none"
    /\ previewPipe = << >>
    /\ endPoint = << >>
    /\ isDraggingShape = FALSE
    /\ draggedShapeId = NullId
    /\ shapeDragStartPos = << >>
    /\ \E v \in MidpointVertices :
           shapes = <<[id |-> 1, vertices |-> v, cornerRadii |-> Zeros(Len(v)),
                       segmentDepths |-> Zeros(Len(v))]>>
    /\ selectedShapeId = 1
    /\ dragMoves = 0
    /\ NoCalls

\* a click on the midpoint handle of a segment and an answer to the prompt
MidpointClick ==
    /\ storeCalls < MaxStoreCalls
    /\ \E segmentIndex \in 0..(Len(SelectedOrEmpty.vertices) - 1),
          newDepthStr \in PromptEntries :
           /\ shapes' = eventListener(segmentIndex, newDepthStr)
           /\ storeCalls' = IF Truthy(newDepthStr) /\ ~IsNaN(parseFloat(newDepthStr))
                            THEN storeCalls + 1 ELSE storeCalls
    /\ UNCHANGED <<sessionVars, dragVars, selectedShapeId, dragMoves,
                   outlinerVars, builderVars>>

MidpointNext == MidpointClick

MidpointSpec == MidpointInit /\ [][MidpointNext]_allVars

---------------------------------------------------------------------------
(* One Alt-drag of a shape *)

\* pointer moves of one drag
MaxDragSteps == 3

\* positions the pointer moves to during the drag
DragSpecPositions == {Pt(a, b) : a \in {-6, 0, 3}, b \in {0, 3, 153}}

\* where the pointer goes down to start the drag
DragStartPointer == Pt(3, 3)

\* the shapes in the store when the drag starts: the outline of a sketched
\* pipe with a rounded corner and a bulge, and a rectangle
DragStartShapes ==
    <<[id |-> 1,
       vertices |-> generateOrthogonalPipeVertices(<<Pt(0, 0), Pt(153, 0)>>,
                                                   PIPE_THICKNESS),
       cornerRadii |-> <<0, 5, 0, 0>>,
       segmentDepths |-> <<7, 0, 0, 0>>],
      [id |-> 2,
       vertices |-> <<Pt(0, 0), Pt(20, 0), Pt(20, 10), Pt(0, 10)>>,
       cornerRadii |-> <<0, 0, 0, 0>>,
       segmentDepths |-> <<0, 0, 0, 0>>]>>

\* the idle editor holding the shapes
DragInit ==
    /\ isDrawingPipe = FALSE
    /\ pipeCenterline = << >>
    /\ lastDirection = "none"
    /\ previewPipe = << >>
    /\ endPoint = << >>
    /\ isDraggingShape = FALSE
    /\ draggedShapeId = NullId
    /\ shapeDragStartPos = << >>
    /\ shapes = DragStartShapes
    /\ selectedShapeId \in {NullId, 1, 2}
    /\ dragMoves = 0
    /\ NoCalls

\* the pointer goes down on a shape with Alt held
DragPointerDown ==
    /\ ~isDraggingShape /\ dragMoves = 0
    /\ \E shapeId \in ShapeIds :
           MouseDown("shape", shapeId, TRUE, <<DragStartPointer>>)
    /\ UNCHANGED callVars

DragPointerMove ==
    /\ isDraggingShape /\ dragMoves < MaxDragSteps
    /\ \E altKey \in BOOLEAN, p \in DragSpecPositions : MouseMove(altKey, <<p>>)
    /\ UNCHANGED callVars

DragPointerUp ==
    /\ isDraggingShape
    /\ MouseUp(NullId)
    /\ UNCHANGED callVars

DragNext == DragPointerDown \/ DragPointerMove \/ DragPointerUp

DragSpec == DragInit /\ [][DragNext]_allVars

---------------------------------------------------------------------------
(* Vocabulary of the properties below *)

\* the step is a pointer-up event
IsPointerUp == \E id \in FreshIds : MouseUp(id)

\* the step is a pointer-down event
IsPointerDown ==
    \E target \in Targets, altKey \in BOOLEAN, pos \in DownPositions :
        \E shapeId \in (IF target = "shape" THEN ShapeIds ELSE {NullId}) :
            MouseDown(target, shapeId, altKey, pos)

\* the step is a pointer move to p that the running sketch session processes
\* (recognised by the session fields the handler writes; the preview follows
\* from them)
IsSketchMove(p) ==
    /\ isDrawingPipe /\ ~DragMoveTaken /\ pipeCenterline # << >>
    /\ isDrawingPipe' /\ endPoint' # << >>
    /\ MoveWithinBounds(FALSE, <<p>>)
    /\ LET m == MoveSession(pipeCenterline, lastDirection, p)
       IN  /\ endPoint' = <<m.endPoint>>
           /\ pipeCenterline' = m.pipeCenterline
           /\ lastDirection' = m.lastDirection
    /\ UNCHANGED <<dragVars, storeVars>>

\* the axis chosen for a first move from a to p
RuleAxis(a, p) == IF Abs(p.x - a.x) > Abs(p.y - a.y) THEN "H" ELSE "V"

\* the axis a move from a to p is locked to
LockedAxis(a, p) == IF lastDirection = "none" THEN RuleAxis(a, p) ELSE lastDirection

\* the displacement from a to p perpendicular to axis
Perp(axis, a, p) == IF axis = "V" THEN Abs(p.x - a.x) ELSE Abs(p.y - a.y)

\* p constrained to axis through a
Pinned(axis, a, p) == IF axis = "V" THEN Pt(a.x, p.y) ELSE Pt(p.x, a.y)

Flip(axis) == IF axis = "V" THEN "H" ELSE "V"

\* committed centerline + live endpoint
LivePath == pipeCenterline \o endPoint

\* the axis segment p -> q runs along ("zero" for a zero-length segment)
SegAxis(p, q) ==
    IF p = q THEN "zero"
    ELSE IF p.y = q.y THEN "H"
    ELSE IF p.x = q.x THEN "V"
    ELSE "diagonal"

---------------------------------------------------------------------------
(* C1 *)

\* C1 (as claimed): on a pointer-up that ends a running sketch, whenever the
\* outline of (committed centerline + last live endpoint) at thickness 150 has
\* more than 3 vertices, a shape with exactly those vertices is added to the
\* store, also when the last move left the live endpoint less than 5 units
\* from the last committed vertex.
C1_OutlineDecidesCommit ==
    [][(/\ isDrawingPipe /\ ~isDraggingShape
        /\ endPoint # << >> /\ endPoint # <<Last(pipeCenterline)>>
        /\ IsPointerUp) =>
          LET outline == generateOrthogonalPipeVertices(LivePath, 150)
          IN  Len(outline) > 3 =>
                 /\ Len(shapes') = Len(shapes) + 1
                 /\ shapes'[Len(shapes')].vertices = outline]_vars

---------------------------------------------------------------------------
(* C2 *)

\* C2 (as claimed): a pointer-down that arrives while a sketch session is
\* running leaves the session's centerline, locked axis and preview unchanged.
C2_SecondPointerDownIgnored ==
    [][(isDrawingPipe /\ IsPointerDown) =>
          /\ isDrawingPipe'
          /\ UNCHANGED <<pipeCenterline, lastDirection, previewPipe>>]_vars

---------------------------------------------------------------------------
(* C3 *)

\* every segment of the live path is axis-aligned (a zero-length live segment
\* counts as aligned) and no two consecutive segments run along the same axis
Alternating(path) ==
    /\ \A i \in 1..(Len(path) - 1) :
           SegAxis(path[i], path[i + 1]) \in {"H", "V", "zero"}
    /\ \A i \in 1..(Len(path) - 2) :
           \/ SegAxis(path[i], path[i + 1]) = "zero"
           \/ SegAxis(path[i + 1], path[i + 2]) = "zero"
           \/ SegAxis(path[i], path[i + 1]) # SegAxis(path[i + 1], path[i + 2])

\* C3 (as claimed): after any sequence of pointer moves the path (committed
\* centerline + live endpoint) consists of runs that alternate between
\* horizontal and vertical.
C3_RunsAlternate == isDrawingPipe => Alternating(LivePath)

---------------------------------------------------------------------------
(* C4 *)

\* C4 (as claimed): a move registers a turn exactly when the displacement from
\* the anchor perpendicular to the locked axis is strictly greater than 150;
\* then the constrained point is appended to the centerline and the lock
\* flips; otherwise neither the centerline nor the lock changes.
C4_TurnAppendsConstrainedPoint ==
    [][\A p \in Positions : IsSketchMove(p) =>
          LET a == Last(pipeCenterline)
              axis == LockedAxis(a, p)
          IN  IF Perp(axis, a, p) > 150
              THEN /\ pipeCenterline' = Append(pipeCenterline, Pinned(axis, a, p))
                   /\ lastDirection' = Flip(axis)
              ELSE /\ pipeCenterline' = pipeCenterline
                   /\ lastDirection' = axis]_vars

\* C4 (amended): as claimed, except that a constrained point equal to the
\* anchor is not appended: the centerline and the anchor are then unchanged
\* while the lock still flips.
C4_TurnAppendsUnlessAtAnchor ==
    [][\A p \in Positions : IsSketchMove(p) =>
          LET a == Last(pipeCenterline)
              axis == LockedAxis(a, p)
          IN  IF Perp(axis, a, p) > 150
              THEN /\ pipeCenterline' =
                        IF Pinned(axis, a, p) = a
                        THEN pipeCenterline
                        ELSE Append(pipeCenterline, Pinned(axis, a, p))
                   /\ Last(pipeCenterline') = Pinned(axis, a, p)
                   /\ lastDirection' = Flip(axis)
              ELSE /\ pipeCenterline' = pipeCenterline
                   /\ lastDirection' = axis]_vars

\* a turn was registered at (153,0) on the way from (0,0) to (153,153)
C4_Witness ==
    /\ isDrawingPipe
    /\ pipeCenterline = <<Pt(0, 0), Pt(153, 0)>>
    /\ lastDirection = "V"
    /\ endPoint = <<Pt(153, 153)>>

---------------------------------------------------------------------------
(* C5 *)

\* the step is the first pointer move of a session, to p
IsFirstMove(p) == lastDirection = "none" /\ IsSketchMove(p)

\* C5 (as claimed): the first pointer move of a session locks the axis to
\* Horizontal if |dx| > |dy| from the anchor, otherwise to Vertical.
C5_FirstMoveLocksAxis ==
    [][\A p \in Positions : IsFirstMove(p) =>
          lastDirection' = RuleAxis(Last(pipeCenterline), p)]_vars

\* C5 (amended): the first pointer move locks Horizontal if |dx| > |dy|, else
\* Vertical, and the live endpoint is pinned to that axis, unless the
\* displacement perpendicular to that axis exceeds 150: then the same move
\* registers the turn, the first run lies along the chosen axis and the lock
\* ends on the other axis.
C5_FirstMoveLocksAxisOrTurns ==
    [][\A p \in Positions : IsFirstMove(p) =>
          LET a == Last(pipeCenterline)
              axis == RuleAxis(a, p)
          IN  IF Perp(axis, a, p) > 150
              THEN /\ lastDirection' = Flip(axis)
                   /\ SegAxis(a, Last(pipeCenterline')) = axis
              ELSE /\ lastDirection' = axis
                   /\ endPoint' = <<Pinned(axis, a, p)>>]_vars

\* the first move went from (0,0) to (3,153): locked Vertical, x pinned at 0
C5_Witness ==
    /\ isDrawingPipe
    /\ pipeCenterline = <<Pt(0, 0)>>
    /\ lastDirection = "V"
    /\ endPoint = <<Pt(0, 153)>>

---------------------------------------------------------------------------
(* C6 *)

\* C6: after every pointer move processed while drawing, the live endpoint
\* differs from the anchor (the last committed centerline vertex) only along
\* the locked axis: its coordinate perpendicular to the lock is the anchor's.
C6_EndpointPinnedToAnchor ==
    (isDrawingPipe /\ endPoint # << >>) =>
        /\ lastDirection \in {"H", "V"}
        /\ lastDirection = "V" => endPoint[1].x = Last(pipeCenterline).x
        /\ lastDirection = "H" => endPoint[1].y = Last(pipeCenterline).y

\* after a turn the endpoint has left the new anchor along the new axis
C6_Witness ==
    /\ isDrawingPipe
    /\ Len(pipeCenterline) = 2
    /\ endPoint # << >>
    /\ endPoint # <<Last(pipeCenterline)>>

---------------------------------------------------------------------------
(* C7 *)

\* C7: a pointer-down on the empty canvas with no modifier held, received
\* while no session is running, starts a session whose centerline is the
\* pointer position alone and whose axis is undetermined, whatever the
\* previous session left behind.
C7_PointerDownStartsFreshSession ==
    [][\A pos \in DownPositions :
          (~isDrawingPipe /\ MouseDown("stage", NullId, FALSE, pos)) =>
              /\ isDrawingPipe'
              /\ pipeCenterline' = pos
              /\ lastDirection' = "none"
              /\ endPoint' = << >>
              /\ previewPipe' = << << >> >>]_vars

\* a fresh session runs while the store holds the shape of an earlier one
C7_Witness ==
    /\ isDrawingPipe
    /\ pipeCenterline = <<Pt(0, 0)>>
    /\ lastDirection = "none"
    /\ Len(shapes) = 1

---------------------------------------------------------------------------
(* C8 *)

\* the step is a cancel of the running sketch: Escape, or Alt seen on a key
\* press or on a pointer move (an Alt that arrives while a shape is being
\* dragged belongs to the drag and cancels nothing)
IsCancel ==
    /\ isDrawingPipe
    /\ \/ \E altKey \in BOOLEAN : KeyDown("Escape", altKey)
       \/ ~isDraggingShape /\ (\E key \in Keys : KeyDown(key, TRUE))
       \/ ~DragMoveTaken /\ (\E pos \in PointerPositions : MouseMove(TRUE, pos))

---------------------------------------------------------------------------
(* C9 *)

\* C9 (as claimed): every pointer-up received while a sketch session is
\* running ends that session: immediately afterwards the session is idle.
C9_PointerUpEndsSession ==
    [][(isDrawingPipe /\ IsPointerUp) =>
          /\ ~isDrawingPipe'
          /\ pipeCenterline' = << >>
          /\ lastDirection' = "none"]_vars

---------------------------------------------------------------------------
(* C10 *)

\* the session has committed no turn and its live segment, if any, is
\* shorter than 5 units
OnlyShortMoves ==
    /\ Len(pipeCenterline) = 1
    /\ endPoint # << >> =>
          HypotLess(endPoint[1].x - pipeCenterline[1].x,
                    endPoint[1].y - pipeCenterline[1].y, 5)

\* C10: a pointer-up that ends a session with no pointer move, or with a live
\* segment shorter than 5 units and no committed turn, creates no shape.
C10_DegenerateCommitCreatesNoShape ==
    [][(isDrawingPipe /\ OnlyShortMoves /\ IsPointerUp) =>
          shapes' = shapes /\ selectedShapeId' = selectedShapeId]_vars

\* a session whose only move left the live endpoint 3 units from the anchor
C10_Witness ==
    /\ isDrawingPipe
    /\ ~isDraggingShape
    /\ pipeCenterline = <<Pt(0, 0)>>
    /\ endPoint = <<Pt(3, 0)>>
    /\ previewPipe = << << >> >>

---------------------------------------------------------------------------
(* C11 *)

\* C11: a call that adds a shape appends it after the shapes already in the
\* store, gives it cornerRadii and segmentDepths as long as its vertices with
\* every entry 0, and makes it the selected shape.
C11_NewShapeZeroFilledAndSelected ==
    [][Len(shapes') = Len(shapes) + 1 =>
          LET shape == shapes'[Len(shapes')]
          IN  /\ SubSeq(shapes', 1, Len(shapes)) = shapes
              /\ Len(shape.cornerRadii) = Len(shape.vertices)
              /\ Len(shape.segmentDepths) = Len(shape.vertices)
              /\ \A k \in 1..Len(shape.vertices) :
                     shape.cornerRadii[k] = 0 /\ shape.segmentDepths[k] = 0
              /\ selectedShapeId' = shape.id]_allVars

\* the outline of a committed sketch was added after an existing shape
C11_Witness ==
    /\ Len(shapes) = 2
    /\ shapes[2].vertices =
           generateOrthogonalPipeVertices(<<Pt(0, 0), Pt(153, 0)>>, PIPE_THICKNESS)
    /\ shapes[2].cornerRadii = <<0, 0, 0, 0>>
    /\ selectedShapeId = shapes[2].id

---------------------------------------------------------------------------
(* C12 *)

\* C12 (as claimed): every shape of the store has cornerRadii, segmentDepths
\* and vertices of the same length, whatever calls were made on the store.
C12_ArraysSameLength ==
    \A k \in 1..Len(shapes) :
        /\ Len(shapes[k].cornerRadii) = Len(shapes[k].vertices)
        /\ Len(shapes[k].segmentDepths) = Len(shapes[k].vertices)

---------------------------------------------------------------------------
(* C13 *)

\* C13: after a pointer move processed by a running sketch session, the
\* preview polygon is the outline of (centerline + live endpoint) at thickness
\* 150 when the live segment is at least 5 units long, and is empty when the
\* live segment is shorter than 5 units.
C13_PreviewIsOutlineOfLivePath ==
    (isDrawingPipe /\ endPoint # << >>) =>
        /\ previewPipe # << >>
        /\ LET anchorPoint == Last(pipeCenterline)
               live == endPoint[1]
           IN  IF HypotLess(live.x - anchorPoint.x, live.y - anchorPoint.y, 5)
               THEN previewPipe[1] = << >>
               ELSE /\ Len(previewPipe[1]) = 2 * (2 * Len(LivePath))
                    /\ FinalVertices(previewPipe[1]) =
                           generateOrthogonalPipeVertices(LivePath, 150)

\* a preview of a path with one turn
C13_Witness ==
    /\ isDrawingPipe
    /\ pipeCenterline = <<Pt(0, 0), Pt(153, 0)>>
    /\ endPoint = <<Pt(153, 153)>>
    /\ previewPipe # << >>
    /\ Len(previewPipe[1]) = 12

\* a move that leaves the live endpoint 3 units from the anchor
C13_WitnessSuppressed ==
    /\ isDrawingPipe
    /\ pipeCenterline = <<Pt(0, 0)>>
    /\ endPoint = <<Pt(3, 0)>>
    /\ previewPipe = << << >> >>

---------------------------------------------------------------------------
(* Vocabulary of the properties of the outline generator *)

\* the vertices the call returned
OutlineOf == outlinerResult[1]

\* the call returned two points for every point of the path
TwoPerStation == Len(OutlineOf) = 2 * Len(outlinerPath)

\* stations are counted from 1; the rails of station i in the result
RightRail(i) == OutlineOf[i]
LeftRail(i) == OutlineOf[2 * Len(outlinerPath) + 1 - i]

HalfThickness == outlinerThickness \div 2

\* unit direction of the segment into / out of station i, and its left normal
DirIn(i) == Normalize(Pt(outlinerPath[i].x - outlinerPath[i - 1].x,
                         outlinerPath[i].y - outlinerPath[i - 1].y))
DirOut(i) == Normalize(Pt(outlinerPath[i + 1].x - outlinerPath[i].x,
                          outlinerPath[i + 1].y - outlinerPath[i].y))
LeftNormal(d) == Pt(-d.y, d.x)
Cross(a, b) == a.x * b.y - a.y * b.x

\* normal(in) + normal(out) at station i
MiterSum(i) ==
    Pt(LeftNormal(DirIn(i)).x + LeftNormal(DirOut(i)).x,
       LeftNormal(DirIn(i)).y + LeftNormal(DirOut(i)).y)

InteriorStations == 2..(Len(outlinerPath) - 1)

---------------------------------------------------------------------------
(* C14 *)

\* C14 (as claimed): at an interior station where the path turns right the
\* left rail gets p + h*(normal(in)+normal(out)) and the right rail the
\* negation; at a left turn the right rail gets p + h*(normal(in)+normal(out))
\* and the left rail the negation.
C14_RightTurnMirrorsLeftTurn ==
    (outlinerResult # << >> /\ TwoPerStation) =>
        \A i \in InteriorStations :
            LET p == outlinerPath[i]
                c == Cross(DirIn(i), DirOut(i))
            IN  /\ c < 0 => /\ LeftRail(i) = PtAdd(p, MiterSum(i), HalfThickness)
                            /\ RightRail(i) = PtAdd(p, MiterSum(i), -HalfThickness)
                /\ c > 0 => /\ RightRail(i) = PtAdd(p, MiterSum(i), HalfThickness)
                            /\ LeftRail(i) = PtAdd(p, MiterSum(i), -HalfThickness)

\* C14 (amended): at an interior station where the path turns, right or left,
\* the right rail gets p + h*(normal(in)+normal(out)) and the left rail
\* p - h*(normal(in)+normal(out)).
C14_TurnsShareOneFormula ==
    (outlinerResult # << >>) =>
        /\ Len(outlinerPath) >= 2 => TwoPerStation
        /\ \A i \in InteriorStations :
               LET p == outlinerPath[i]
                   c == Cross(DirIn(i), DirOut(i))
               IN  c # 0 => /\ RightRail(i) = PtAdd(p, MiterSum(i), HalfThickness)
                            /\ LeftRail(i) = PtAdd(p, MiterSum(i), -HalfThickness)

\* the outline of a path that goes right along x and then turns right
\* (towards smaller y) was computed
C14_Witness ==
    /\ outlinerResult # << >>
    /\ outlinerPath = <<Pt(0, 100), Pt(100, 100), Pt(100, 0)>>
    /\ outlinerThickness = 150
    /\ Cross(DirIn(2), DirOut(2)) < 0
    /\ RightRail(2) = Pt(100 + 75, 100 + 75)
    /\ LeftRail(2) = Pt(100 - 75, 100 - 75)

---------------------------------------------------------------------------
(* C15 *)

\* C15: for a centerline of n >= 2 points the outline generator returns
\* exactly 2*n points.
C15_TwoPointsPerCenterlinePoint ==
    (outlinerResult # << >> /\ Len(outlinerPath) >= 2) =>
        Len(OutlineOf) = 2 * Len(outlinerPath)

\* the outline of a three-point path with a turn has six points
C15_Witness ==
    /\ outlinerResult # << >>
    /\ outlinerPath = <<Pt(0, 0), Pt(100, 0), Pt(100, 100)>>
    /\ Len(OutlineOf) = 6

---------------------------------------------------------------------------
(* C16 *)

\* the vector station i is offset along, in units of the half thickness: the
\* normal of the outgoing segment at the start, of the incoming segment at the
\* end and where the path runs straight on, the sum of both at a turn
StationOffset(i) ==
    IF i = 1 THEN LeftNormal(DirOut(i))
    ELSE IF i = Len(outlinerPath) THEN LeftNormal(DirIn(i))
    ELSE IF Cross(DirIn(i), DirOut(i)) = 0 THEN LeftNormal(DirIn(i))
    ELSE MiterSum(i)

\* C16: the result lists the right-rail points of the stations in order and
\* then the left-rail points in reverse order: the k-th point and the k-th
\* point from the end are the two offsets of centerline point k, symmetric
\* about it.
C16_RightRailThenReversedLeftRail ==
    (outlinerResult # << >> /\ Len(outlinerPath) >= 2) =>
        /\ TwoPerStation
        /\ \A k \in 1..Len(outlinerPath) :
               LET p == outlinerPath[k]
               IN  /\ RightRail(k) = PtAdd(p, StationOffset(k), HalfThickness)
                   /\ LeftRail(k) = PtAdd(p, StationOffset(k), -HalfThickness)
                   /\ RightRail(k).x + LeftRail(k).x = 2 * p.x
                   /\ RightRail(k).y + LeftRail(k).y = 2 * p.y

\* the outline of an L-shaped path: right rail first, left rail back
C16_Witness ==
    /\ outlinerResult # << >>
    /\ outlinerPath = <<Pt(0, 0), Pt(100, 0), Pt(100, 100)>>
    /\ outlinerThickness = 2
    /\ OutlineOf = <<Pt(0, 1), Pt(99, 1), Pt(99, 100),
                     Pt(101, 100), Pt(101, -1), Pt(0, -1)>>

---------------------------------------------------------------------------
(* C17 *)

\* the segments of the path that have a length
MovingSegments == {i \in 1..(Len(outlinerPath) - 1) : outlinerPath[i] # outlinerPath[i + 1]}

\* all points lie on one horizontal or one vertical line and no segment
\* reverses the direction of another
StraightNoReversal ==
    /\ Len(outlinerPath) >= 2
    /\ \/ \A i \in 1..Len(outlinerPath) : outlinerPath[i].y = outlinerPath[1].y
       \/ \A i \in 1..Len(outlinerPath) : outlinerPath[i].x = outlinerPath[1].x
    /\ \A i, j \in MovingSegments : DirOut(i) = DirOut(j)

\* the line is horizontal (the points share their y)
AlongX == \A i \in 1..Len(outlinerPath) : outlinerPath[i].y = outlinerPath[1].y

\* at every station both rails keep the coordinate along the line and differ
\* by the thickness across it
RailsThicknessApart ==
    /\ TwoPerStation
    /\ \A k \in 1..Len(outlinerPath) :
           LET p == outlinerPath[k]
           IN  IF AlongX
               THEN /\ RightRail(k).x = p.x /\ LeftRail(k).x = p.x
                    /\ Abs(RightRail(k).y - LeftRail(k).y) = outlinerThickness
               ELSE /\ RightRail(k).y = p.y /\ LeftRail(k).y = p.y
                    /\ Abs(RightRail(k).x - LeftRail(k).x) = outlinerThickness

\* for [(0,0),(100,0)] and thickness 150 the rails are at y = +75 and y = -75
\* and span x = 0..100
ExampleRails ==
    (outlinerPath = <<Pt(0, 0), Pt(100, 0)>> /\ outlinerThickness = 150) =>
        OutlineOf = <<Pt(0, 75), Pt(100, 75), Pt(100, -75), Pt(0, -75)>>

\* C17 (as claimed): for a straight axis-aligned centerline (all points
\* collinear on a horizontal or vertical line, no reversal) the two rails keep
\* the centerline point's coordinate along the line and differ by exactly the
\* thickness across it, at every station.
C17_StraightRailsThicknessApart ==
    (outlinerResult # << >> /\ StraightNoReversal) =>
        RailsThicknessApart /\ ExampleRails

\* C17 (amended): as claimed, for a straight centerline whose consecutive
\* points are distinct.
C17_StraightDistinctRailsThicknessApart ==
    (/\ outlinerResult # << >>
     /\ StraightNoReversal
     /\ MovingSegments = 1..(Len(outlinerPath) - 1)) =>
        RailsThicknessApart /\ ExampleRails

\* the example of the claim
C17_Witness ==
    /\ outlinerResult # << >>
    /\ outlinerPath = <<Pt(0, 0), Pt(100, 0)>>
    /\ outlinerThickness = 150
    /\ OutlineOf = <<Pt(0, 75), Pt(100, 75), Pt(100, -75), Pt(0, -75)>>

---------------------------------------------------------------------------
(* C18 *)

\* C18: for a centerline of fewer than 2 points the call returns, and
\* returns the empty sequence.
C18_ShortCenterlineGivesNothing ==
    /\ Len(outlinerPath) < 2 => ENABLED CallOutliner \/ outlinerResult # << >>
    /\ (outlinerResult # << >> /\ Len(outlinerPath) < 2) => OutlineOf = << >>

\* the call returned for a path of one point
C18_Witness ==
    /\ Len(outlinerPath) = 1
    /\ outlinerResult = << << >> >>

---------------------------------------------------------------------------
(* Vocabulary of the properties of the path builder *)

BuiltShape == builderShape[1]
BuiltPath == builderResult[1].path
BuiltArcPoints == builderResult[1].arcPoints

\* per vertex k (from 1): the commands appended for the edge that arrives at
\* the vertex and for its corner
BuiltSegments == builderResult[1].segments
BuiltCorners == builderResult[1].corners

\* vertex k of the shape, counted from 1, and its neighbours
VertexAt(k) == BuiltShape.vertices[k]
PrevVertex(k) == BuiltShape.vertices[IF k = 1 THEN Len(BuiltShape.vertices) ELSE k - 1]
NextVertex(k) == BuiltShape.vertices[IF k = Len(BuiltShape.vertices) THEN 1 ELSE k + 1]

\* length of an axis-aligned edge
EdgeLength(p, q) == Abs(p.x - q.x) + Abs(p.y - q.y)

\* distance of a point the builder placed on an edge of vertex k from the vertex
DistanceFromVertex(k, placed) ==
    Abs(placed.x[1] - VertexAt(k).x) + Abs(placed.y[1] - VertexAt(k).y)

---------------------------------------------------------------------------
(* C19 *)

\* C19: at every vertex with requested corner radius r > 0 and both adjacent
\* edges of non-zero length, the tangent distance t at which arcStart and
\* arcEnd are placed is at most half of either adjacent edge.
C19_TangentWithinHalfEdges ==
    (builderResult # << >> /\ Len(BuiltShape.vertices) >= 2) =>
        \A k \in 1..Len(BuiltShape.vertices) :
            LET l_prev == EdgeLength(VertexAt(k), PrevVertex(k))
                l_next == EdgeLength(VertexAt(k), NextVertex(k))
                arc == BuiltArcPoints[k]
            IN  (BuiltShape.cornerRadii[k] > 0 /\ l_prev > 0 /\ l_next > 0) =>
                    /\ ~IsNaN(arc.p_arc_start.x) /\ ~IsNaN(arc.p_arc_start.y)
                    /\ ~IsNaN(arc.p_arc_end.x) /\ ~IsNaN(arc.p_arc_end.y)
                    /\ 2 * DistanceFromVertex(k, arc.p_arc_start) <= l_prev
                    /\ 2 * DistanceFromVertex(k, arc.p_arc_start) <= l_next
                    /\ 2 * DistanceFromVertex(k, arc.p_arc_end) <= l_prev
                    /\ 2 * DistanceFromVertex(k, arc.p_arc_end) <= l_next

\* a radius of 30 at the corner (0,0) of the 20 x 10 rectangle was clamped to
\* 5, half of the shorter edge
C19_Witness ==
    /\ builderResult # << >>
    /\ BuiltShape.vertices = <<Pt(0, 0), Pt(20, 0), Pt(20, 10), Pt(0, 10)>>
    /\ BuiltShape.cornerRadii[1] = 30
    /\ BuiltArcPoints[1].p_arc_start = NumPt(Pt(0, 5))
    /\ BuiltArcPoints[1].p_arc_end = NumPt(Pt(5, 0))
    /\ BuiltArcPoints[1].radius = Num(5)

---------------------------------------------------------------------------
(* C20 *)

\* number of arc commands in a path / of non-zero entries in an array
ArcCommands(path) == Cardinality({k \in 1..Len(path) : path[k].cmd = "A"})
NonZeroEntries(array) == Cardinality({k \in 1..Len(array) : array[k] # 0})

\* MoveTo(v[N-1]) followed by LineTo(v[0]), ..., LineTo(v[N-1])
StraightPath(vertices) ==
    <<MoveTo(NumPt(vertices[Len(vertices)]))>> \o
    [k \in 1..Len(vertices) |-> LineTo(NumPt(vertices[k]))]

\* C20 (as claimed): for a shape whose cornerRadii are all 0 the path has no
\* arc command at a vertex (no more arc commands than edges with a depth), and
\* with all depths 0 as well the path is MoveTo(v[N-1]), LineTo(v[0]), ...,
\* LineTo(v[N-1]).
C20_ZeroRadiiGiveNoCornerArcs ==
    (/\ builderResult # << >>
     /\ Len(BuiltShape.vertices) >= 2
     /\ NonZeroEntries(BuiltShape.cornerRadii) = 0) =>
        /\ ArcCommands(BuiltPath) <= NonZeroEntries(BuiltShape.segmentDepths)
        /\ NonZeroEntries(BuiltShape.segmentDepths) = 0 =>
               BuiltPath = StraightPath(BuiltShape.vertices)

---------------------------------------------------------------------------
(* C21 *)

\* the depths with their signs changed
Negated(array) == [k \in 1..Len(array) |-> 0 - array[k]]

\* the command for the edge that arrives at vertex k when every depth changes
\* its sign and the chord endpoints stay
MirroredSegment(k) ==
    SegmentCommand(BuiltShape.vertices, Negated(BuiltShape.segmentDepths),
                   BuiltArcPoints, k - 1)

IsArc(commands) == commands # << >> /\ commands[1].cmd = "A"

\* C21: for the same chord endpoints and depths +d and -d, the bulge arcs have
\* equal radius and opposite sweep flags.
C21_OppositeDepthsMirrorTheArc ==
    (builderResult # << >> /\ Len(BuiltShape.vertices) >= 2) =>
        \A k \in 1..Len(BuiltShape.vertices) :
            IsArc(BuiltSegments[k]) =>
                /\ IsArc(MirroredSegment(k))
                /\ MirroredSegment(k)[1].r = BuiltSegments[k][1].r
                /\ MirroredSegment(k)[1].sweep = 1 - BuiltSegments[k][1].sweep
                /\ MirroredSegment(k)[1].x = BuiltSegments[k][1].x
                /\ MirroredSegment(k)[1].y = BuiltSegments[k][1].y

\* the edge from (0,0) to (20,0) of the rectangle with depth 3: radius
\* (9 + 100) / 6 = 436 / 24 and sweep 0; with depth -3 the same radius and
\* sweep 1
C21_Witness ==
    /\ builderResult # << >>
    /\ BuiltShape.vertices = <<Pt(0, 0), Pt(20, 0), Pt(20, 10), Pt(0, 10)>>
    /\ BuiltShape.segmentDepths[1] = 3
    /\ BuiltSegments[2] = <<ArcTo(436, 24, 0, NumPt(Pt(20, 0)))>>
    /\ MirroredSegment(2) = <<ArcTo(436, 24, 1, NumPt(Pt(20, 0)))>>

---------------------------------------------------------------------------
(* C22 *)

\* arcStart, arcEnd and effectiveRadius of vertex k (from 1), and the vertex
\* before it around the polygon
ArcStartOf(k) == BuiltArcPoints[k].p_arc_start
ArcEndOf(k) == BuiltArcPoints[k].p_arc_end
EffectiveRadius(k) == BuiltArcPoints[k].radius
Before(k) == IF k = 1 THEN Len(BuiltShape.vertices) ELSE k - 1

\* the arc points of every vertex are numbers
ArcPointsAreNumbers == \A k \in 1..Len(BuiltArcPoints) : ~IsNaN(EffectiveRadius(k))

\* depth of the edge that arrives at vertex k, and the chord it spans
DepthInto(k) == ElemOr0(BuiltShape.segmentDepths, Before(k) - 1)
ChordInto(k) == ChordOf(ArcEndOf(Before(k)), ArcStartOf(k))

\* the bulge of the edge that arrives at vertex k is degenerate
BulgeDegenerate(k) == DepthInto(k) = 0 \/ ChordInto(k) = Num(0)

\* kind and end point of a command
KindAndEnd(command) == [cmd |-> command.cmd, x |-> command.x, y |-> command.y]
Kinds(commands) == [j \in 1..Len(commands) |-> KindAndEnd(commands[j])]

ExpectedEdge(k) ==
    [cmd |-> IF BulgeDegenerate(k) THEN "L" ELSE "A",
     x |-> ArcStartOf(k).x, y |-> ArcStartOf(k).y]

ExpectedCorner(k) ==
    IF EffectiveRadius(k)[1] > 0
    THEN <<[cmd |-> "A", x |-> ArcEndOf(k).x, y |-> ArcEndOf(k).y]>>
    ELSE << >>

RECURSIVE ExpectedFrom(_)
ExpectedFrom(k) ==
    IF k > Len(BuiltShape.vertices) THEN << >>
    ELSE <<ExpectedEdge(k)>> \o ExpectedCorner(k) \o ExpectedFrom(k + 1)

\* C22 (as claimed): for N >= 2 vertices the path is MoveTo(arcEnd[N-1]) and
\* then, for each vertex in order, the edge command ending at arcStart[i]
\* (LineTo when the preceding edge's bulge is degenerate, otherwise an arc)
\* and, only if effectiveRadius[i] > 0, the corner arc ending at arcEnd[i];
\* nothing else.  Stated for shapes whose arc points are all numbers.
C22_PathFollowsTheVertices ==
    (/\ builderResult # << >>
     /\ Len(BuiltShape.vertices) >= 2
     /\ ArcPointsAreNumbers) =>
        Kinds(BuiltPath) =
            <<[cmd |-> "M", x |-> ArcEndOf(Len(BuiltShape.vertices)).x,
               y |-> ArcEndOf(Len(BuiltShape.vertices)).y]>> \o ExpectedFrom(1)

---------------------------------------------------------------------------
(* C23 *)

\* C23 (as claimed): an edge whose bulge is degenerate, by a depth under 0.1
\* or by a chord of length zero between arcEnd[i-1] and arcStart[i], gets a
\* LineTo(arcStart[i]) in both cases.  Stated for shapes whose arc points are
\* all numbers.
C23_DegenerateBulgeGivesLine ==
    (/\ builderResult # << >>
     /\ Len(BuiltShape.vertices) >= 2
     /\ ArcPointsAreNumbers) =>
        \A k \in 1..Len(BuiltShape.vertices) :
            BulgeDegenerate(k) => BuiltSegments[k] = <<LineTo(ArcStartOf(k))>>

---------------------------------------------------------------------------
(* C24 *)

\* the arc of a bulge of depth d over a chord of length c, ending at p
BulgeArc(d, c, p) ==
    ArcTo(4 * d * d + c * c, 8 * Abs(d), IF d > 0 THEN 0 ELSE 1, p)

\* C24: the edge command that arrives at vertex i is decided by
\* segmentDepths[(i-1+N) mod N], the entry of the vertex the edge leaves, so
\* the edge from vertex N-1 to vertex 0 uses segmentDepths[N-1].
C24_EdgeUsesDepthOfItsFirstVertex ==
    (builderResult # << >> /\ Len(BuiltShape.vertices) >= 2) =>
        \A k \in 1..Len(BuiltShape.vertices) :
            LET d == BuiltShape.segmentDepths[Before(k)]
            IN  /\ d = 0 => BuiltSegments[k] = <<LineTo(ArcStartOf(k))>>
                /\ d # 0 =>
                       \/ BuiltSegments[k] = << >>
                       \/ /\ ~IsNaN(ChordInto(k))
                          /\ BuiltSegments[k] =
                                 <<BulgeArc(d, ChordInto(k)[1], ArcStartOf(k))>>

\* only the edge from the last vertex (0,10) back to (0,0) has a depth: the
\* command arriving at vertex 0 is its arc, every other edge is a line
C24_Witness ==
    /\ builderResult # << >>
    /\ BuiltShape.vertices = <<Pt(0, 0), Pt(20, 0), Pt(20, 10), Pt(0, 10)>>
    /\ BuiltShape.segmentDepths = <<0, 0, 0, 3>>
    /\ BuiltSegments[1] = <<ArcTo(136, 24, 0, NumPt(Pt(0, 0)))>>
    /\ \A k \in 2..4 : BuiltSegments[k] = <<LineTo(ArcStartOf(k))>>

---------------------------------------------------------------------------
(* C25 *)

\* length of the edge from vertex k to the next vertex of a shape, k from 1
ChordOfEdge(shape, k) ==
    LET p1 == shape.vertices[k]
        p2 == shape.vertices[(k % Len(shape.vertices)) + 1]
    IN  HypotAligned(Pt(p2.x - p1.x, p2.y - p1.y))

\* C25 (as claimed): a bulge entered through the depth prompt of a midpoint
\* handle is stored with magnitude at most half the chord length of its edge.
\* Every depth of the shape is 0 or was stored by the prompt.
C25_PromptDepthWithinHalfChord ==
    \A s \in 1..Len(shapes) :
        \A k \in 1..Len(shapes[s].segmentDepths) :
            2 * Abs(shapes[s].segmentDepths[k]) <= ChordOfEdge(shapes[s], k)

---------------------------------------------------------------------------
(* C26 *)

\* C26: for every shape with fewer than 2 vertices generatePathData returns
\* the empty path, and the call completes.
C26_FewVerticesGiveEmptyPath ==
    Len(BuiltShape.vertices) < 2 =>
        /\ Len(builderResult) < MaxBuilderCalls => ENABLED CallPathBuilder
        /\ \A c \in 1..Len(builderResult) : builderResult[c].path = << >>

\* called on a shape of one vertex that has a radius and a depth
C26_Witness ==
    /\ builderResult # << >>
    /\ BuiltShape.vertices = <<Pt(0, 0)>>
    /\ BuiltShape.cornerRadii = <<30>>
    /\ BuiltShape.segmentDepths = <<3>>
    /\ BuiltPath = << >>

---------------------------------------------------------------------------
(* C27 *)

---------------------------------------------------------------------------
(* C28 *)

\* the step is a pointer-down that does not land on the stage, or one with
\* Alt held
IsOffStageDown ==
    \E target \in Targets, altKey \in BOOLEAN, pos \in DownPositions :
        \E shapeId \in (IF target = "shape" THEN ShapeIds ELSE {NullId}) :
            /\ target # "stage" \/ altKey
            /\ MouseDown(target, shapeId, altKey, pos)

\* the step is a pointer-down on the stage itself with Alt not held
IsStageDown ==
    \E pos \in DownPositions : MouseDown("stage", NullId, FALSE, pos)

\* C28: a pointer-down on a handle, a label or a shape, or any pointer-down
\* with Alt held, leaves an idle session idle with an empty centerline; a
\* session starts only by a pointer-down on the stage with Alt not held.
C28_SketchStartsOnlyOnBareStage ==
    [][/\ (IsOffStageDown /\ ~isDrawingPipe /\ pipeCenterline = << >>) =>
              (~isDrawingPipe' /\ pipeCenterline' = << >>)
       /\ (~isDrawingPipe /\ isDrawingPipe') => IsStageDown]_allVars

\* a pointer-down with Alt held landed on a shape while no sketch was running:
\* the shape is being dragged and no session started
C28_Witness ==
    /\ isDraggingShape
    /\ draggedShapeId # NullId
    /\ ~isDrawingPipe
    /\ pipeCenterline = << >>

---------------------------------------------------------------------------
(* C29 *)

\* every segment of the centerline has a length and every interior station is
\* a turn of 90 degrees
RightAngledPath ==
    /\ Len(outlinerPath) >= 2
    /\ \A i \in 1..(Len(outlinerPath) - 1) : outlinerPath[i] # outlinerPath[i + 1]
    /\ \A i \in InteriorStations : Cross(DirIn(i), DirOut(i)) # 0

\* perpendicular distance of q from the line of the axis-aligned segment a b
PerpendicularDistance(q, a, b) ==
    IF a.y = b.y THEN Abs(q.y - a.y) ELSE Abs(q.x - a.x)

\* the centerline segments adjacent to station i, by their first point
AdjacentSegments(i) ==
    {j \in {i - 1, i} : j >= 1 /\ j < Len(outlinerPath)}

\* C29: for a centerline of axis-aligned segments that turns by 90 degrees at
\* every interior vertex, both outline points of every station lie at
\* perpendicular distance thickness / 2 from each adjacent centerline segment,
\* and every edge of the closed outline is axis-aligned.
C29_RightAngledPipeHasUniformWidth ==
    (outlinerResult # << >> /\ RightAngledPath) =>
        /\ TwoPerStation
        /\ \A i \in 1..Len(outlinerPath) :
               \A j \in AdjacentSegments(i) :
                   /\ PerpendicularDistance(RightRail(i), outlinerPath[j],
                                            outlinerPath[j + 1]) = HalfThickness
                   /\ PerpendicularDistance(LeftRail(i), outlinerPath[j],
                                            outlinerPath[j + 1]) = HalfThickness
        /\ \A k \in 1..Len(OutlineOf) :
               AxisAligned(OutlineOf[k], OutlineOf[(k % Len(OutlineOf)) + 1])

\* the centerline (0,0), (100,0), (100,100) at thickness 150: the turn is
\* offset by 75 along both axes
C29_Witness ==
    /\ outlinerResult # << >>
    /\ outlinerPath = <<Pt(0, 0), Pt(100, 0), Pt(100, 100)>>
    /\ outlinerThickness = PIPE_THICKNESS
    /\ RightRail(2) = Pt(25, 75)
    /\ LeftRail(2) = Pt(175, -75)

---------------------------------------------------------------------------
(* C30 *)

\* an array in the opposite order
Backwards(array) == [k \in 1..Len(array) |-> array[Len(array) + 1 - k]]

\* cross(v_prev, v_next) of the vectors from vertex k to its neighbours
CornerCross(k) ==
    Cross(Pt(PrevVertex(k).x - VertexAt(k).x, PrevVertex(k).y - VertexAt(k).y),
          Pt(NextVertex(k).x - VertexAt(k).x, NextVertex(k).y - VertexAt(k).y))

\* the corner command of vertex k in the path of the polygon wound the other
\* way: the same vertices and radii in the opposite order
ReversedCorner(k) ==
    CornerCommand(Backwards(BuiltShape.vertices),
                  ArcPoints(Backwards(BuiltShape.vertices),
                            Backwards(BuiltShape.cornerRadii)),
                  Len(BuiltShape.vertices) - k)

\* the sweep flag of the corner arc of vertex k follows the sign of the cross
\* product
FlagFollowsCross(k) ==
    BuiltCorners[k][1].sweep = IF CornerCross(k) > 0 THEN 0 ELSE 1

\* C30 (as claimed): the sweep flag of the corner arc at vertex i is 0 when
\* cross(v_prev, v_next) is positive and 1 otherwise, and reversing the
\* winding of the polygon flips the sweep flag of every rounded corner.
C30_ReversalFlipsEveryCorner ==
    (builderResult # << >> /\ Len(BuiltShape.vertices) >= 2) =>
        \A k \in 1..Len(BuiltShape.vertices) :
            IsArc(BuiltCorners[k]) =>
                /\ FlagFollowsCross(k)
                /\ IsArc(ReversedCorner(k))
                /\ ReversedCorner(k)[1].sweep = 1 - BuiltCorners[k][1].sweep

\* C30 (amended): the sweep flag of the corner arc at vertex i is 0 when
\* cross(v_prev, v_next) is positive and 1 otherwise; reversing the winding
\* flips the flag of every rounded corner whose cross product is not zero,
\* and a rounded vertex on a straight line (cross product zero) has flag 1
\* under both windings.
C30_ReversalFlipsTurningCorners ==
    (builderResult # << >> /\ Len(BuiltShape.vertices) >= 2) =>
        \A k \in 1..Len(BuiltShape.vertices) :
            IsArc(BuiltCorners[k]) =>
                /\ FlagFollowsCross(k)
                /\ IsArc(ReversedCorner(k))
                /\ ReversedCorner(k)[1].r = BuiltCorners[k][1].r
                /\ ReversedCorner(k)[1].sweep =
                       IF CornerCross(k) # 0 THEN 1 - BuiltCorners[k][1].sweep ELSE 1

\* the corner (0,0) of the rectangle with radius 4: cross((0,10), (20,0)) is
\* negative, the arc has flag 1, and flag 0 when the rectangle is wound the
\* other way
C30_Witness ==
    /\ builderResult # << >>
    /\ BuiltShape.vertices = <<Pt(0, 0), Pt(20, 0), Pt(20, 10), Pt(0, 10)>>
    /\ BuiltShape.cornerRadii[1] = 4
    /\ CornerCross(1) < 0
    /\ BuiltCorners[1] = <<ArcTo(4, 1, 1, NumPt(Pt(4, 0)))>>
    /\ ReversedCorner(1) = <<ArcTo(4, 1, 0, NumPt(Pt(0, 4)))>>

---------------------------------------------------------------------------
(* C31 *)

\* the step is a call of one of the store's edit operations
IsEditCall ==
    \/ CallUpdateVertexPosition
    \/ CallSetCornerRadius
    \/ CallSetSegmentDepth
    \/ CallMoveSegment
    \/ CallScaleAll

\* C31: an edit operation of the store changes at most the selected shape:
\* the other shapes, the order of the shapes, every id and selectedShapeId
\* stay, and with no shape selected the whole state stays.
C31_EditsTouchOnlySelectedShape ==
    [][IsEditCall =>
           /\ selectedShapeId' = selectedShapeId
           /\ Len(shapes') = Len(shapes)
           /\ \A k \in 1..Len(shapes) :
                  /\ shapes'[k].id = shapes[k].id
                  /\ k # getSelectedShape => shapes'[k] = shapes[k]
           /\ getSelectedShape = 0 => shapes' = shapes]_allVars

\* two shapes, the second selected and given a corner radius, the first as it
\* was added
C31_Witness ==
    /\ Len(shapes) = 2
    /\ selectedShapeId = shapes[2].id
    /\ shapes[2].cornerRadii[1] = ClientRadius
    /\ shapes[1].cornerRadii = Zeros(Len(shapes[1].vertices))
    /\ shapes[1].id # shapes[2].id

---------------------------------------------------------------------------
(* C32 *)

\* the shapes at drag start with every vertex of shape shapeId displaced by
\* (p - pointer position at drag start)
DraggedTo(shapeId, p) ==
    [k \in 1..Len(DragStartShapes) |->
        IF DragStartShapes[k].id = shapeId
        THEN [DragStartShapes[k] EXCEPT !.vertices =
                 [j \in 1..Len(DragStartShapes[k].vertices) |->
                     Pt(DragStartShapes[k].vertices[j].x + p.x - DragStartPointer.x,
                        DragStartShapes[k].vertices[j].y + p.y - DragStartPointer.y)]]
        ELSE DragStartShapes[k]]

\* C32: during an Alt-drag, after each pointer move every vertex of the dragged
\* shape is at its position at drag start plus (pointer position - pointer
\* position at drag start), with radii, depths, vertex count and the other
\* shapes as they were; the pointer-up ends the drag and changes no shape.
C32_DragFollowsThePointer ==
    [][/\ \A p \in DragSpecPositions, altKey \in BOOLEAN :
              (isDraggingShape /\ MouseMove(altKey, <<p>>)) =>
                  shapes' = DraggedTo(draggedShapeId, p)
       /\ (isDraggingShape /\ MouseUp(NullId)) =>
              (~isDraggingShape' /\ shapes' = shapes /\ selectedShapeId' = selectedShapeId)
      ]_allVars

\* shape 1 was dragged through three positions to (-6, 153), 9 to the left of
\* and 150 below the pointer-down, and released; shape 2 is where it was
C32_Witness ==
    /\ ~isDraggingShape
    /\ dragMoves = 3
    /\ shapes = DraggedTo(1, Pt(-6, 153))
    /\ shapes[1].vertices[1].x = DragStartShapes[1].vertices[1].x - 9
    /\ shapes[1].vertices # DragStartShapes[1].vertices
    /\ shapes[2] = DragStartShapes[2]

---------------------------------------------------------------------------
(* C33 *)

\* C33 (as claimed): in every reachable state a pipe sketch and a shape drag
\* are not active together.
C33_SketchAndDragExclusive == ~(isDrawingPipe /\ isDraggingShape)

---------------------------------------------------------------------------
(* C34 *)

\* the points of shorter are the first points of longer
StartsWith(longer, shorter) ==
    /\ Len(shorter) <= Len(longer)
    /\ \A k \in 1..Len(shorter) : longer[k] = shorter[k]

ConsecutiveDistinct(points) ==
    \A k \in 1..(Len(points) - 1) : points[k] # points[k + 1]

\* C34 (as claimed): while a session is Drawing the committed centerline only
\* grows: it starts as the pointer-down position alone, every step of the
\* session keeps the committed points and appends at most one, and consecutive
\* committed points are distinct.
C34_CenterlineOnlyGrows ==
    [][/\ (~isDrawingPipe /\ isDrawingPipe') =>
              \E pos \in DownPositions : pipeCenterline' = pos
       /\ (isDrawingPipe /\ isDrawingPipe') =>
              /\ StartsWith(pipeCenterline', pipeCenterline)
              /\ Len(pipeCenterline') <= Len(pipeCenterline) + 1
              /\ ConsecutiveDistinct(pipeCenterline')]_allVars

---------------------------------------------------------------------------
(* C35 *)

\* the number of vertices the preview outline holds
PreviewVertexCount == Len(FinalVertices(FinalPath))

\* C35: a drawn preview outlines the committed centerline and the live endpoint,
\* two vertices for each of these points; a step that adds a shape to the store
\* gives it the vertices of that preview, so their number is even, at least 4,
\* and 2 * (number of committed centerline points + 1).
C35_SketchShapeVertexCount ==
    [][/\ (previewPipe' # << >> /\ PreviewVertexCount' > 0) =>
              PreviewVertexCount' = 2 * (Len(pipeCenterline') + 1)
       /\ Len(shapes') > Len(shapes) =>
              /\ IsPointerUp /\ UpCreatesShape
              /\ Len(shapes') = Len(shapes) + 1
              /\ LET created == Len(Last(shapes').vertices)
                 IN  /\ created = PreviewVertexCount
                     /\ created = 2 * (Len(pipeCenterline) + 1)
                     /\ created % 2 = 0
                     /\ created >= 4]_allVars

\* a sketch with one turn has created a shape of six vertices
C35_Witness ==
    \E k \in 1..Len(shapes) : Len(shapes[k].vertices) = 6

---------------------------------------------------------------------------
(* C36 *)

\* C36 (as claimed): the step that starts a Drawing session leaves no shape
\* selected; every step inside the session keeps it so; the step that ends the
\* session selects the shape it creates, and leaves no shape selected when it
\* creates none.
C36_SketchDeselects ==
    [][/\ (~isDrawingPipe /\ isDrawingPipe') => selectedShapeId' = NullId
       /\ (isDrawingPipe /\ isDrawingPipe') => selectedShapeId' = NullId
       /\ (isDrawingPipe /\ ~isDrawingPipe') =>
              IF Len(shapes') > Len(shapes)
              THEN selectedShapeId' = Last(shapes').id
              ELSE selectedShapeId' = NullId]_allVars

---------------------------------------------------------------------------
(* C37 *)

\* C37: when selectShape is only called with null or the id of a shape of the
\* store, every store call leaves selectedShapeId null or the id of a shape of
\* the store; deleting the selected shape resets it to null and deleting another
\* shape leaves it unchanged.
C37_SelectionIsNullOrPresent ==
    [][/\ selectedShapeId' = NullId \/ selectedShapeId' \in ShapeIds'
       /\ \A shapeId \in ShapeIds :
              (shapes' = deleteShape(shapeId) /\ Len(shapes') < Len(shapes)) =>
                  selectedShapeId' = (IF selectedShapeId = shapeId THEN NullId
                                      ELSE selectedShapeId)]_allVars

\* the only shape of the store, selected when added, has been deleted
C37_Witness ==
    storeCalls = 2 /\ shapes = << >> /\ selectedShapeId = NullId

---------------------------------------------------------------------------
(* C38 *)

\* the point a command ends at
EndOf(command) == [x |-> command.x, y |-> command.y]

\* two points of the path are the same point: their coordinates are numbers
\* and equal (NaN equals nothing)
SamePoint(p, q) ==
    /\ ~IsNaN(p.x) /\ ~IsNaN(p.y) /\ ~IsNaN(q.x) /\ ~IsNaN(q.y)
    /\ p = q

\* where the pen is after the commands of vertices 1..k: the end of the last
\* command appended so far, the MoveTo point when there is none
RECURSIVE PenAfter(_)
PenAfter(k) ==
    IF k = 0 THEN EndOf(BuiltPath[1])
    ELSE IF BuiltCorners[k] # << >> THEN EndOf(BuiltCorners[k][1])
    ELSE IF BuiltSegments[k] # << >> THEN EndOf(BuiltSegments[k][1])
    ELSE PenAfter(k - 1)

\* where the pen is when the corner arc of vertex k is appended
PenBeforeCorner(k) ==
    IF BuiltSegments[k] # << >> THEN EndOf(BuiltSegments[k][1]) ELSE PenAfter(k - 1)

\* C38 (as claimed): for N >= 2 vertices the path is continuous and closed: the
\* edge command arriving at vertex k starts at arcEnd of the vertex before, the
\* corner arc of vertex k starts at arcStart[k], and the last command ends at
\* the MoveTo point arcEnd[N-1].
C38_PathIsClosedAndContinuous ==
    (builderResult # << >> /\ Len(BuiltShape.vertices) >= 2) =>
        LET n == Len(BuiltShape.vertices)
        IN  /\ SamePoint(EndOf(BuiltPath[1]), ArcEndOf(n))
            /\ \A k \in 1..n :
                   /\ BuiltSegments[k] # << >> =>
                          SamePoint(PenAfter(k - 1), ArcEndOf(Before(k)))
                   /\ BuiltCorners[k] # << >> =>
                          SamePoint(PenBeforeCorner(k), ArcStartOf(k))
            /\ SamePoint(EndOf(BuiltPath[Len(BuiltPath)]), EndOf(BuiltPath[1]))
            /\ SamePoint(PenAfter(n), ArcEndOf(n))

---------------------------------------------------------------------------
(* C39 *)

====
